---- MODULE Spec2Model ----
(***************************************************************************)
(* A model of notedeck's subscription manager (crates/notedeck/src/        *)
(* subman.rs) and of the account layer that drives it (accounts.rs).       *)
(*                                                                         *)
(* The SubMan struct is the variables subs/local/remote/idle/pool; the     *)
(* operations are pure operators on a record of those fields (a "world"),  *)
(* so that callers such as Accounts::update can chain several of them in   *)
(* one step.  Everything outside src/ (the relay pool, the local store,    *)
(* the end-signal channel) is modelled from its use in the code and from   *)
(* spec.md and is marked so in MODEL_MAP.json.                             *)
(***************************************************************************)
EXTENDS Integers, Sequences, FiniteSets, Bags, TLC

VARIABLES
    subs,      \* arena of SubState records (Rc<RefCell<SubState>>), by creation order
    local,     \* SubMan.local : LocalId -> index into subs
    remote,    \* SubMan.remote: RemoteId -> index into subs
    idle,      \* SubMan.idle  : relay url -> Instant first seen idle
    pool,      \* SubMan.pool  : relay url -> socket open?
    chan,      \* per SubState: the end-signals queued in its channel, each
               \* marked with the function that sent it
    reqs,      \* bag of REQ frames SubMan has handed to the pool so far
    ndb,       \* the local store: notes and, per local subscription, its queue
    panicked,  \* an expect()/assert! of the code failed: the process is gone
    now,       \* the monotonic clock read by Instant::now()
    accounts,                    \* Accounts.accounts: the pubkeys, in order
    currently_selected_account,  \* Accounts.currently_selected_account
    account_data,                \* Accounts.account_data: pubkey -> AccountData
    rcvr,      \* the consumer of a SubReceiver: suspended in next()?, the note
               \* keys it was handed so far, the value of its last call and
               \* whether that call had suspended; with a remote part also the
               \* receiver's parts and which source was ready first
    unknown_ids,         \* UnknownIds: ids, first_updated, last_updated
    requests,            \* the last result of generate_resolution_requests
    dropped,             \* the SubStates whose SubReceiver has been dropped
    secret_keys,         \* the pubkeys of Accounts.accounts held with a secret key
    needs_relay_config,  \* Accounts.needs_relay_config
    published,           \* the NIP-65 events handed to RelayPool::send, in order
    hung,                \* the UI thread waits for a Mutex it holds itself
    mute_fun             \* the predicate the last call of mutefun() returned, if any

submanvars == <<subs, local, remote, idle, pool, chan, reqs, ndb, panicked>>

acctvars == <<accounts, currently_selected_account, account_data>>

othervars == <<unknown_ids, requests, dropped, secret_keys, needs_relay_config, published, hung, mute_fun>>

vars == <<submanvars, now, acctvars, rcvr, othervars>>

----------------------------------------------------------------------------
(* Bounds of the model *)

\* number of SubMan::subscribe calls in a behaviour
MaxSubs == 1
\* number of relay events drained by one process_relays step
MaxBatch == 1
\* the clock stops advancing here
MaxTime == 21
\* number of times Accounts::update activates an account in a behaviour
MaxActivations == 2
\* the largest max_notes a consumer passes to poll
MaxPoll == 2
\* the clock of the UnknownIds specification stops here (seconds)
MaxQuiet == 4

(* Program constants *)

\* Duration::from_secs(20)
IDLE_EXPIRATION_SECS == 20
\* subscription.stream(&self.ndb).notes_per_await(1)
notes_per_await == 1
\* const MAX_CHUNK_IDS: usize = 500
MAX_CHUNK_IDS == 500
\* mpsc::channel(1): the buffer of the end-signal channel
ChanBuffer == 1

\* Duration::from_secs(2) of ready_to_send
DEBOUNCE_SECS == 2

----------------------------------------------------------------------------
(* Option<T> as a sequence of length at most one *)

None == << >>

Some(x) == <<x>>

IsSome(o) == o # << >>

Unwrap(o) == o[1]

Range(f) == {f[x] : x \in DOMAIN f}

\* f with key k removed (BTreeMap::remove)
MapRemove(f, k) == [x \in DOMAIN f \ {k} |-> f[x]]

\* f with key k set to v (BTreeMap::insert)
MapInsert(f, k, v) == [x \in DOMAIN f \cup {k} |-> IF x = k THEN v ELSE f[x]]

EmptyMap == [x \in {} |-> 0]

----------------------------------------------------------------------------
(* Relay urls: <<host, path>>.  A0 is wss://a as a user may type it or as  *)
(* it arrives in a NIP-19 relay hint; A1 and B1 are in canonical form.      *)

A0 == <<"wss://a", "">>

A1 == <<"wss://a", "/">>

B1 == <<"wss://b", "/">>

\* Url::parse(url).to_string(): an empty path becomes "/"; verbatim if unparsable
canonicalize_url(url) ==
    IF url[1] # "" THEN <<url[1], IF url[2] = "" THEN "/" ELSE url[2]>> ELSE url

\* RelaySpec::new(url, has_read_marker, has_write_marker)
RelaySpec(url, r, w) == [url |-> url, has_read_marker |-> r, has_write_marker |-> w]

\* RelaySpec::is_readable: no marker means both
is_readable(rs) == rs.has_read_marker \/ ~rs.has_write_marker

\* RelaySpec::is_writable: no marker means both
is_writable(rs) == rs.has_write_marker \/ ~rs.has_read_marker

----------------------------------------------------------------------------
(* RelaySubState *)

Pending == "Pending"

Syncing == "Syncing"

Current == "Current"

Closed == "Closed"

ErrorBlocked == "Error(blocked)"

ErrorRelay == "Error(e)"

IsTerminal(rss) == rss \in {ErrorBlocked, ErrorRelay, Closed}

----------------------------------------------------------------------------
(* The world: the fields the operations read and write *)

(* `out` is the bag of what one call emits: the frames handed to the pool,  *)
(* the calls of the legacy handler, the end-signals queued.                 *)

World ==
    [subs |-> subs, local |-> local, remote |-> remote, idle |-> idle,
     pool |-> pool, chan |-> chan, reqs |-> reqs, out |-> EmptyBag, ndb |-> ndb,
     panicked |-> panicked]

Emit(w, msgs) == [w EXCEPT !.out = @ (+) SetToBag(msgs)]

Count(bag, m) == IF m \in DOMAIN bag THEN bag[m] ELSE 0

Req(sid, url) == <<"REQ", sid, url>>

Close(sid, url) == <<"CLOSE", sid, url>>

EndSignal(s) == <<"ended", s>>

LegacyOpened(url) == <<"legacy_opened", url>>

LegacyEose(sid, url) == <<"legacy_eose", sid, url>>

----------------------------------------------------------------------------
(* The relay pool (enostr::RelayPool), from its use and spec.md section 6 *)

\* RelayPool::urls
pool_urls(p) == DOMAIN p

\* RelayPool::subscribe_relay: true iff the REQ went out on an open socket
pool_subscribe_relay(p, url) ==
    canonicalize_url(url) \in DOMAIN p /\ p[canonicalize_url(url)]

\* RelayPool::subscribe_relay opens the relay when the pool does not have it
pool_add_url(p, url) ==
    IF canonicalize_url(url) \in DOMAIN p THEN p
    ELSE MapInsert(p, canonicalize_url(url), FALSE)

\* RelayPool::remove_urls
pool_remove_urls(p, urls) == [u \in DOMAIN p \ urls |-> p[u]]

\* RelayPool::send_to: the frame is handed to the relay with that url
pool_send_to(p, url) == url \in DOMAIN p

----------------------------------------------------------------------------
(* The end-signal channel (futures mpsc), one per RemoteSubState *)

\* Sender::try_send(()).ok(): queued unless the channel is full (the buffer and
\* the slot of the one sender)
try_send(w, s, sender) ==
    IF Len(w.chan[s]) < ChanBuffer + 1
    THEN Emit([w EXCEPT !.chan[s] = Append(@, sender)], {EndSignal(s)})
    ELSE w

----------------------------------------------------------------------------
(* The local store (nostrdb), from its use and spec.md section 6 *)

\* a filter is the set of kinds it accepts
FilterMatches(filters, note) == note.kind \in filters

\* Ndb::subscribe: a new subscription with an empty queue; `first` is the key of
\* the first note that can reach it
ndb_subscribe(n, id, filters) ==
    [n EXCEPT !.subs = MapInsert(@, id, [filters |-> filters, queue |-> << >>,
                                         first |-> Len(n.notes) + 1])]

Min(a, b) == IF a < b THEN a ELSE b

\* Ndb::poll_for_notes: up to max_notes keys leave the front of the queue
ndb_poll_for_notes(n, id, max_notes) ==
    LET q == n.subs[id].queue
        k == Min(max_notes, Len(q))
    IN  [ndb |-> [n EXCEPT !.subs[id].queue = SubSeq(q, k + 1, Len(q))],
         keys |-> SubSeq(q, 1, k)]

\* Ndb::process_event: store a note not yet stored (its key is its position) and
\* queue the key on every matching subscription
ndb_process_event(n, note) ==
    IF note \in Range(n.notes) THEN n
    ELSE [notes |-> Append(n.notes, note),
          subs |-> [id \in DOMAIN n.subs |->
             IF FilterMatches(n.subs[id].filters, note)
             THEN [n.subs[id] EXCEPT !.queue = Append(@, Len(n.notes) + 1)]
             ELSE n.subs[id]]]

----------------------------------------------------------------------------
(* SubSpec and SubState *)

\* SubSpecBuilder::build; allowed_relays and blocked_relays without duplicates
SubSpec(rid, filters, oneshot, onlylocal, onlyremote, allowed, blocked) ==
    [remote_id |-> rid, filters |-> filters, is_oneshot |-> oneshot,
     is_onlylocal |-> onlylocal, is_onlyremote |-> onlyremote,
     allowed_relays |-> allowed, blocked_relays |-> blocked]

\* the relays field of a SubState with a remote part
RelaysOf(sub) == sub.remote[1].relays

\* the indexes hold this SubState
InLocal(w, s) == s \in Range(w.local)

InRemote(w, s) == s \in Range(w.remote)

Panic(w) == [w EXCEPT !.panicked = TRUE]

\* what is left of a SubState once its last Rc is gone
DroppedSubState ==
    [spec |-> SubSpec(0, {}, FALSE, FALSE, FALSE, {}, {}), local |-> None, remote |-> None]

\* Rc<RefCell<SubState>>: a SubState no index refers to any more is dropped
drop_unreferenced(w) ==
    [w EXCEPT !.subs = [s \in DOMAIN @ |->
                           IF InLocal(w, s) \/ InRemote(w, s) THEN @[s]
                           ELSE DroppedSubState]]

----------------------------------------------------------------------------
(* RemoteSubState *)

\* RemoteSubState::update_rss, where the relay entry exists
update_rss(sub, relay, newstate) ==
    [sub EXCEPT !.remote[1].relays[relay] = newstate]

\* the expect("couldn't find relay") of update_rss fails
update_rss_panics(sub, relay) == relay \notin DOMAIN RelaysOf(sub)

\* consider_finished that does not look for relays left syncing
consider_finished_unconditional(sub, is_oneshot) == is_oneshot

\* consider_finished that is content with one relay having closed
consider_finished_any_closed(sub, is_oneshot) ==
    is_oneshot /\ \E k \in DOMAIN RelaysOf(sub) : RelaysOf(sub)[k] = Closed

\* consider_finished that waits for the pending relays too
consider_finished_waits_pending(sub, is_oneshot) ==
    is_oneshot /\ \A k \in DOMAIN RelaysOf(sub) : RelaysOf(sub)[k] \notin {Syncing, Pending}

\* RemoteSubState::consider_finished: its return value
consider_finished(sub, is_oneshot) ==
    LET still_syncing == {k \in DOMAIN RelaysOf(sub) : RelaysOf(sub)[k] = Syncing}
    IN  IF still_syncing = {} THEN is_oneshot ELSE FALSE

----------------------------------------------------------------------------
(* SubMan *)

\* SubMan::new(ndb, pool)
SubManNew(p) ==
    [subs |-> << >>, local |-> EmptyMap, remote |-> EmptyMap, idle |-> EmptyMap,
     pool |-> p, chan |-> << >>, reqs |-> EmptyBag, out |-> EmptyBag,
     ndb |-> [notes |-> << >>, subs |-> EmptyMap], panicked |-> FALSE]

\* a relay choice that adds the default relays to the allowed ones
ChosenRelays_with_defaults(spec, default_relays) ==
    spec.allowed_relays \cup {rs.url : rs \in default_relays}

\* make_subscription: "Determine which relays to use"
ChosenRelays(spec, default_relays) ==
    IF spec.allowed_relays # {}
    THEN spec.allowed_relays
    ELSE {rs.url : rs \in {r \in default_relays : is_readable(r)}}

\* a relay state seeding that does not look at blocked_relays
InitialRss_ignores_blocked(p, spec, relay) ==
    IF pool_subscribe_relay(p, relay) THEN Syncing ELSE Pending

\* make_subscription: the state a chosen relay starts in
InitialRss(p, spec, relay) ==
    IF relay \in spec.blocked_relays THEN ErrorBlocked
    ELSE IF pool_subscribe_relay(p, relay) THEN Syncing
    ELSE Pending

\* SubMan::make_subscription: the SubState it builds for slot s
make_substate(w, s, spec, default_relays) ==
    [spec |-> spec,
     local |-> IF spec.is_onlyremote THEN None ELSE Some([local_id |-> s]),
     remote |-> IF spec.is_onlylocal THEN None
                ELSE Some([remote_id |-> spec.remote_id,
                           relays |-> [r \in ChosenRelays(spec, default_relays) |->
                                          InitialRss(w.pool, spec, r)]])]

\* the pool after make_subscription called subscribe_relay for every unblocked relay
RECURSIVE pool_add_urls(_, _)
pool_add_urls(p, urls) ==
    IF urls = {} THEN p
    ELSE LET u == CHOOSE x \in urls : TRUE
         IN  pool_add_urls(pool_add_url(p, u), urls \ {u})

\* SubMan::make_subscription: its effects on the store, the pool and the wire
make_subscription(w, s, spec, default_relays) ==
    LET sub == make_substate(w, s, spec, default_relays)
        asked == IF IsSome(sub.remote)
                 THEN {r \in DOMAIN RelaysOf(sub) : r \notin spec.blocked_relays}
                 ELSE {}
        sent == {Req(spec.remote_id, r) : r \in {x \in asked : RelaysOf(sub)[x] = Syncing}}
    IN  [w EXCEPT !.ndb = IF IsSome(sub.local) THEN ndb_subscribe(@, s, spec.filters) ELSE @,
                  !.pool = pool_add_urls(@, asked),
                  !.reqs = @ (+) SetToBag(sent),
                  !.out = @ (+) SetToBag(sent)]

\* SubMan::subscribe
subscribe(w, spec, default_relays) ==
    LET s == Len(w.subs) + 1
        sub == make_substate(w, s, spec, default_relays)
        w1 == make_subscription(w, s, spec, default_relays)
    IN  drop_unreferenced(
            [w1 EXCEPT !.subs = Append(@, sub),
                       !.chan = Append(@, << >>),
                       !.local = IF IsSome(sub.local) THEN MapInsert(@, s, s) ELSE @,
                       !.remote = IF IsSome(sub.remote)
                                  THEN MapInsert(@, spec.remote_id, s)
                                  ELSE @])

\* SubMan::subscribe: what it returns.  Ndb::subscribe does not fail here, so
\* make_subscription returns Ok and subscribe hands out the SubReceiver, whose
\* localsub and remotesub are present as the parts of the SubState are
subscribe_returns(w, spec, default_relays) ==
    LET sub == make_substate(w, Len(w.subs) + 1, spec, default_relays)
    IN  [result |-> "Ok",
         receiver |-> Some([localsub |-> IsSome(sub.local),
                            remotesub |-> IsSome(sub.remote)])]

\* SubMan::close_relay_sub for a set of relays of one subscription
close_relay_sub(w, sid, urls) ==
    Emit(w, {Close(sid, u) : u \in {x \in urls : x \in pool_urls(w.pool)}})

\* SubMan::unsubscribe_substate: the remote half
unsubscribe_remote_part(w, s) ==
    LET sub == w.subs[s]
        remote_id == sub.remote[1].remote_id
        open == {u \in DOMAIN RelaysOf(sub) : RelaysOf(sub)[u] \in {Syncing, Current}}
        w1 == try_send(close_relay_sub(w, remote_id, open), s, "unsubscribe_substate")
    IN  IF remote_id \in DOMAIN w1.remote
        THEN [w1 EXCEPT !.remote = MapRemove(@, remote_id)]
        ELSE Panic(w1)

\* SubMan::unsubscribe_substate: the local half
unsubscribe_local_part(w, s) ==
    LET local_id == w.subs[s].local[1].local_id
    IN  IF local_id \in DOMAIN w.local
        THEN [w EXCEPT !.local = MapRemove(@, local_id)]
        ELSE Panic(w)

\* unsubscribe_substate without its second half: the local index keeps the state
unsubscribe_substate_keeps_local(w, s) ==
    LET w1 == IF IsSome(w.subs[s].remote) THEN unsubscribe_remote_part(w, s) ELSE w
    IN  IF w1.panicked THEN w1 ELSE drop_unreferenced(w1)

\* SubMan::unsubscribe_substate
unsubscribe_substate(w, s) ==
    LET w1 == IF IsSome(w.subs[s].remote) THEN unsubscribe_remote_part(w, s) ELSE w
        w2 == IF w1.panicked THEN w1
              ELSE IF IsSome(w.subs[s].local) THEN unsubscribe_local_part(w1, s)
              ELSE w1
    IN  IF w2.panicked THEN w2 ELSE drop_unreferenced(w2)

\* SubMan::unsubscribe_local_id: Ok(()) or InternalError("... not found")
unsubscribe_local_id(w, local_id) ==
    IF local_id \notin DOMAIN w.local
    THEN [w |-> w, result |-> "InternalError"]
    ELSE [w |-> unsubscribe_substate(w, w.local[local_id]), result |-> "Ok"]

\* SubMan::unsubscribe_remote_id: Ok(()) or InternalError("... not found")
unsubscribe_remote_id(w, remote_id) ==
    IF remote_id \notin DOMAIN w.remote
    THEN [w |-> w, result |-> "InternalError"]
    ELSE [w |-> unsubscribe_substate(w, w.remote[remote_id]), result |-> "Ok"]

\* remove_substate_remote_id without its first half: the local index keeps the state
remove_substate_keeps_local(w, remote_id) ==
    IF remote_id \notin DOMAIN w.remote THEN w
    ELSE drop_unreferenced([w EXCEPT !.remote = MapRemove(@, remote_id)])

\* SubMan::remove_substate_remote_id
remove_substate_remote_id(w, remote_id) ==
    IF remote_id \notin DOMAIN w.remote THEN w
    ELSE LET sub == w.subs[w.remote[remote_id]]
         IN  drop_unreferenced(
                 [w EXCEPT !.local = IF IsSome(sub.local)
                                     THEN MapRemove(@, sub.local[1].local_id)
                                     ELSE @,
                           !.remote = MapRemove(@, remote_id)])

----------------------------------------------------------------------------
(* SubMan::process_relays *)

\* the relay events the pool can hand to process_relays
EvOpened(relay) == [kind |-> "Opened", relay |-> relay]

EvClosed(relay) == [kind |-> "Closed", relay |-> relay]

EvError(relay) == [kind |-> "Error", relay |-> relay]

EvOther(relay) == [kind |-> "Other", relay |-> relay]

EvEose(relay, sid) == [kind |-> "Eose", relay |-> relay, sid |-> sid]

EvEvent(relay, note) == [kind |-> "Event", relay |-> relay, note |-> note]

EvNotice(relay) == [kind |-> "Notice", relay |-> relay]

EvOK(relay) == [kind |-> "OK", relay |-> relay]

\* the socket of the relay an event comes from: open after Opened, not after Closed/Error
socket_status(p, ev) ==
    IF ev.relay \notin DOMAIN p THEN p
    ELSE IF ev.kind = "Opened" THEN [p EXCEPT ![ev.relay] = TRUE]
    ELSE IF ev.kind \in {"Closed", "Error"} THEN [p EXCEPT ![ev.relay] = FALSE]
    ELSE p

\* the SubStates the loops over self.remote.values_mut() visit that have relay in `states`
IndexedWith(w, relay, states) ==
    {s \in Range(w.remote) :
        /\ IsSome(w.subs[s].remote)
        /\ relay \in DOMAIN RelaysOf(w.subs[s])
        /\ RelaysOf(w.subs[s])[relay] \in states}

\* the Opened arm sending the REQ again to the subscriptions already Syncing
handle_opened_resends(w, relay) ==
    LET pending == IndexedWith(w, relay, {Pending, Syncing})
        sent == {Req(w.subs[s].spec.remote_id, relay) :
                    s \in {x \in pending : pool_send_to(w.pool, relay)}}
    IN  [w EXCEPT !.subs = [s \in DOMAIN @ |->
                               IF s \in pending THEN update_rss(@[s], relay, Syncing)
                               ELSE @[s]],
                  !.reqs = @ (+) SetToBag(sent),
                  !.out = @ (+) SetToBag(sent \cup {LegacyOpened(relay)})]

\* the Opened arm sending the REQ without recording the entry as Syncing
handle_opened_keeps_pending(w, relay) ==
    LET pending == IndexedWith(w, relay, {Pending})
        sent == {Req(w.subs[s].spec.remote_id, relay) :
                    s \in {x \in pending : pool_send_to(w.pool, relay)}}
    IN  [w EXCEPT !.reqs = @ (+) SetToBag(sent),
                  !.out = @ (+) SetToBag(sent \cup {LegacyOpened(relay)})]

\* process_relays, RelayEvent::Opened
handle_opened(w, relay) ==
    LET pending == IndexedWith(w, relay, {Pending})
        sent == {Req(w.subs[s].spec.remote_id, relay) :
                    s \in {x \in pending : pool_send_to(w.pool, relay)}}
    IN  [w EXCEPT !.subs = [s \in DOMAIN @ |->
                               IF s \in pending THEN update_rss(@[s], relay, Syncing)
                               ELSE @[s]],
                  !.reqs = @ (+) SetToBag(sent),
                  !.out = @ (+) SetToBag(sent \cup {LegacyOpened(relay)})]

AllRss == {Pending, Syncing, Current, Closed, ErrorBlocked, ErrorRelay}

\* the Error arm leaving the entries that are Closed or in Error as they are
handle_error_live_only(w, relay) ==
    LET hit == IndexedWith(w, relay, {Pending, Syncing, Current})
    IN  [w EXCEPT !.subs = [s \in DOMAIN @ |->
                               IF s \in hit THEN update_rss(@[s], relay, ErrorRelay)
                               ELSE @[s]]]

\* process_relays, RelayEvent::Error
handle_error(w, relay) ==
    LET hit == IndexedWith(w, relay, AllRss)
    IN  [w EXCEPT !.subs = [s \in DOMAIN @ |->
                               IF s \in hit THEN update_rss(@[s], relay, ErrorRelay)
                               ELSE @[s]]]

\* process_message, RelayMessage::Event
handle_event(w, relay, note) ==
    IF relay \in pool_urls(w.pool)
    THEN [w EXCEPT !.ndb = ndb_process_event(@, note)]
    ELSE w

\* the Eose arm forgetting to remove the finished SubState from the indexes
handle_eose_owned_keeps_state(w, relay, sid) ==
    LET s == w.remote[sid]
        is_oneshot == w.subs[s].spec.is_oneshot
        w1 == [w EXCEPT !.subs[s] = update_rss(@, relay, Current)]
        w2 == IF is_oneshot
              THEN [close_relay_sub(w1, sid, {relay}) EXCEPT
                        !.subs[s] = update_rss(@, relay, Closed)]
              ELSE w1
    IN  IF ~IsSome(w.subs[s].remote) THEN w
        ELSE IF update_rss_panics(w.subs[s], relay) THEN Panic(w)
        ELSE IF consider_finished(w2.subs[s], is_oneshot)
             THEN try_send(w2, s, "consider_finished")
        ELSE w2

\* process_message, RelayMessage::Eose for a subscription of the remote index
handle_eose_owned(w, relay, sid) ==
    LET s == w.remote[sid]
        is_oneshot == w.subs[s].spec.is_oneshot
        w1 == [w EXCEPT !.subs[s] = update_rss(@, relay, Current)]
        w2 == IF is_oneshot
              THEN [close_relay_sub(w1, sid, {relay}) EXCEPT
                        !.subs[s] = update_rss(@, relay, Closed)]
              ELSE w1
        substate_finished == consider_finished(w2.subs[s], is_oneshot)
    IN  IF ~IsSome(w.subs[s].remote) THEN w
        ELSE IF update_rss_panics(w.subs[s], relay) THEN Panic(w)
        ELSE IF substate_finished
             THEN remove_substate_remote_id(try_send(w2, s, "consider_finished"), sid)
        ELSE w2

\* an Eose arm that hands every EOSE to the legacy handler as well
handle_eose_always_legacy(w, relay, sid) ==
    Emit(IF sid \in DOMAIN w.remote THEN handle_eose_owned(w, relay, sid) ELSE w,
         {LegacyEose(sid, relay)})

\* process_message, RelayMessage::Eose
handle_eose(w, relay, sid) ==
    IF sid \in DOMAIN w.remote
    THEN handle_eose_owned(w, relay, sid)
    ELSE Emit(w, {LegacyEose(sid, relay)})

\* one turn of the loop of process_relays
process_event(w, ev) ==
    LET relay == canonicalize_url(ev.relay)
        w1 == [w EXCEPT !.pool = socket_status(@, ev)]
    IN  CASE ev.kind = "Opened" -> handle_opened(w1, relay)
          [] ev.kind = "Error" -> handle_error(w1, relay)
          [] ev.kind = "Event" -> handle_event(w1, relay, ev.note)
          [] ev.kind = "Eose" -> handle_eose(w1, relay, ev.sid)
          [] OTHER -> w1

\* the loop of process_relays over the drained events; a panic ends it
RECURSIVE process_events(_, _)
process_events(w, evs) ==
    IF evs = << >> \/ w.panicked THEN w
    ELSE process_events(process_event(w, Head(evs)), Tail(evs))

\* SubMan::needed_relays
needed_relays(w, default_relays) ==
    {rs.url : rs \in default_relays} \cup
    {relay \in UNION {DOMAIN RelaysOf(w.subs[s]) :
                         s \in {x \in Range(w.remote) : IsSome(w.subs[x].remote)}} :
        \E s \in Range(w.remote) :
            /\ IsSome(w.subs[s].remote)
            /\ relay \in DOMAIN RelaysOf(w.subs[s])
            /\ ~IsTerminal(RelaysOf(w.subs[s])[relay])}

\* close_unneeded_relays without its first loop: a relay that is needed again
\* keeps its idle entry
idle_entries_keeps_needed(w, default_relays, t) ==
    LET needed == needed_relays(w, default_relays)
        unneeded == pool_urls(w.pool) \ needed
    IN  [r \in DOMAIN w.idle \cup unneeded |->
            IF r \in DOMAIN w.idle THEN w.idle[r] ELSE t]

\* close_unneeded_relays: the idle map after the needed relays left it and the
\* unneeded ones entered it
idle_entries(w, default_relays, t) ==
    LET needed == needed_relays(w, default_relays)
        unneeded == pool_urls(w.pool) \ needed
    IN  [r \in (DOMAIN w.idle \ needed) \cup unneeded |->
            IF r \in DOMAIN w.idle THEN w.idle[r] ELSE t]

\* close_unneeded_relays with no relay ever expiring
expired_relays_never(w, default_relays, t) == {}

\* close_unneeded_relays expiring a relay as soon as its idle time reaches the
\* period
expired_relays_at_period(w, default_relays, t) ==
    {r \in pool_urls(w.pool) \ needed_relays(w, default_relays) :
        t - idle_entries(w, default_relays, t)[r] >= IDLE_EXPIRATION_SECS}

\* close_unneeded_relays: the relays whose idle time is over
expired_relays(w, default_relays, t) ==
    {r \in pool_urls(w.pool) \ needed_relays(w, default_relays) :
        t - idle_entries(w, default_relays, t)[r] > IDLE_EXPIRATION_SECS}

\* SubMan::close_unneeded_relays
close_unneeded_relays(w, default_relays, t) ==
    LET expired == expired_relays(w, default_relays, t)
        entries == idle_entries(w, default_relays, t)
    IN  [w EXCEPT !.pool = pool_remove_urls(@, expired),
                  !.idle = [r \in DOMAIN entries \ expired |-> entries[r]]]

\* SubMan::process_relays
process_relays(w, evs, default_relays, t) ==
    LET w1 == process_events(w, evs)
    IN  IF w1.panicked THEN w1 ELSE close_unneeded_relays(w1, default_relays, t)

----------------------------------------------------------------------------
(* The inputs of the SubMan specification *)

\* a subscription id no SubMan subscription has (one of the legacy code's)
LegacySid == 0

\* the filter of the SubMan specification's subscriptions, and the note relays deliver
TextKinds == {1}

\* the notes relays deliver in the SubMan specification
RelayNotes == {[id |-> "n1", kind |-> 1]}

\* default_relays as Accounts hands them over: canonical urls, NIP-65 markers
DefaultChoices ==
    {{}, {RelaySpec(A1, FALSE, FALSE)},
     {RelaySpec(A1, FALSE, FALSE), RelaySpec(B1, FALSE, TRUE)}}

\* allowed_relays and blocked_relays of a spec with a remote part
RelayConstraints == {<<{}, {}>>, <<{A0}, {}>>, <<{A1, B1}, {}>>, <<{A1, B1}, {B1}>>}

\* the specs a caller builds for the subscription with the given remote id:
\* every combination of the three flags; relay constraints where they are read
SpecChoices(rid) ==
    {SubSpec(rid, TextKinds, o, FALSE, r, c[1], c[2]) :
        o \in BOOLEAN, r \in BOOLEAN, c \in RelayConstraints}
    \cup {SubSpec(rid, TextKinds, o, TRUE, r, {}, {}) : o \in BOOLEAN, r \in BOOLEAN}

\* what RelayPool::try_recv can hand over: a socket that is not open opens or
\* fails, an open one closes, fails or delivers a frame; a relay may send EOSE for
\* any subscription id
EventsOf(w) ==
    UNION {IF w.pool[u]
           THEN {EvClosed(u), EvError(u), EvOther(u), EvNotice(u), EvOK(u)} \cup
                {EvEvent(u, n) : n \in RelayNotes} \cup
                {EvEose(u, sid) : sid \in {LegacySid} \cup (1 .. Len(w.subs))}
           ELSE {EvOpened(u), EvError(u)} :
           u \in pool_urls(w.pool)}

Batches(w) == UNION {[1 .. n -> EventsOf(w)] : n \in 0 .. MaxBatch}

TickSteps == {20, 21}

\* the pool SubMan::new is handed: empty, or with relays whose sockets are not open yet
InitPools == {EmptyMap, [u \in {A1, B1} |-> FALSE]}

----------------------------------------------------------------------------
(* The SubMan specification: any caller, any relay behaviour *)

\* write the world back
Commit(w) ==
    /\ subs' = w.subs
    /\ local' = w.local
    /\ remote' = w.remote
    /\ idle' = w.idle
    /\ pool' = w.pool
    /\ chan' = w.chan
    /\ reqs' = w.reqs
    /\ ndb' = w.ndb
    /\ panicked' = w.panicked

\* the world as constructed
Start(w) ==
    /\ subs = w.subs
    /\ local = w.local
    /\ remote = w.remote
    /\ idle = w.idle
    /\ pool = w.pool
    /\ chan = w.chan
    /\ reqs = w.reqs
    /\ ndb = w.ndb
    /\ panicked = w.panicked

\* Accounts::new over an empty key store
AccountsNew ==
    [accounts |-> << >>, currently_selected_account |-> None, account_data |-> EmptyMap]

\* the Accounts fields as constructed
StartAccounts(a) ==
    /\ accounts = a.accounts
    /\ currently_selected_account = a.currently_selected_account
    /\ account_data = a.account_data

\* a consumer that has not called its receiver yet
RcvrNew == [awaiting |-> FALSE, woken |-> FALSE, delivered |-> << >>, ret |-> << >>]

\* UnknownIds::default(): no ids, no update yet
UnknownIdsNew == [ids |-> EmptyMap, first_updated |-> None, last_updated |-> None]

\* the components outside SubMan and the account list, as constructed
StartOthers ==
    /\ unknown_ids = UnknownIdsNew
    /\ requests = << >>
    /\ dropped = {}
    /\ secret_keys = {}
    /\ needs_relay_config = TRUE
    /\ published = << >>
    /\ hung = FALSE
    /\ mute_fun = None

Init ==
    /\ \E p \in InitPools : Start(SubManNew(p))
    /\ now = 0
    /\ StartAccounts(AccountsNew)
    /\ rcvr = RcvrNew
    /\ StartOthers

Subscribe ==
    /\ ~panicked
    /\ Len(subs) < MaxSubs
    /\ \E spec \in SpecChoices(Len(subs) + 1), default_relays \in DefaultChoices :
          Commit(subscribe(World, spec, default_relays))
    /\ UNCHANGED <<now, acctvars, rcvr, othervars>>

UnsubscribeLocalId ==
    /\ ~panicked
    /\ \E local_id \in 1 .. MaxSubs :
          Commit(unsubscribe_local_id(World, local_id).w)
    /\ UNCHANGED <<now, acctvars, rcvr, othervars>>

UnsubscribeRemoteId ==
    /\ ~panicked
    /\ \E remote_id \in 1 .. MaxSubs :
          Commit(unsubscribe_remote_id(World, remote_id).w)
    /\ UNCHANGED <<now, acctvars, rcvr, othervars>>

ProcessRelays ==
    /\ ~panicked
    /\ \E evs \in Batches(World), default_relays \in DefaultChoices :
          Commit(process_relays(World, evs, default_relays, now))
    /\ UNCHANGED <<now, acctvars, rcvr, othervars>>

Tick ==
    /\ ~panicked
    /\ idle # EmptyMap
    /\ \E d \in TickSteps : now + d <= MaxTime /\ now' = now + d
    /\ UNCHANGED <<submanvars, acctvars, rcvr, othervars>>

Next ==
    \/ Subscribe
    \/ UnsubscribeLocalId
    \/ UnsubscribeRemoteId
    \/ ProcessRelays
    \/ Tick

Spec == Init /\ [][Next]_vars

\* impl Drop for SubReceiver: the caller lets go of the receiver of the
\* SubState of slot s without unsubscribing; the drop logs and tells SubMan nothing
DropReceiver ==
    /\ ~panicked
    /\ \E s \in (1 .. Len(subs)) \ dropped :
          /\ InLocal(World, s) \/ InRemote(World, s)
          /\ dropped' = dropped \cup {s}
    /\ UNCHANGED <<submanvars, now, acctvars, rcvr, unknown_ids, requests,
                   secret_keys, needs_relay_config, published, hung, mute_fun>>

NextDrop ==
    \/ Subscribe
    \/ UnsubscribeLocalId
    \/ UnsubscribeRemoteId
    \/ ProcessRelays
    \/ Tick
    \/ DropReceiver

\* SubMan with callers that may drop their receivers
SpecDrop == Init /\ [][NextDrop]_vars

----------------------------------------------------------------------------
(* Accounts (accounts.rs).  An Accounts world is the SubMan world `w` and the *)
(* three Accounts fields.  No account has a relay list or a mute list in the *)
(* local store, so every advertised set is empty.                            *)

AcctWorld ==
    [w |-> World, accounts |-> accounts,
     currently_selected_account |-> currently_selected_account,
     account_data |-> account_data]

\* the compiled-in bootstrap relays, canonical and without markers (one of the four)
bootstrap_relays == {RelaySpec(A1, FALSE, FALSE)}

\* the filters of AccountRelayData::new and AccountMutedData::new
RelayListKinds == {10002}

MutedListKinds == {10000}

\* AccountData as handle_added_account builds it
AccountDataNew ==
    [relay |-> [sub_remote_id |-> None, advertised |-> {}],
     muted |-> [sub_remote_id |-> None, muted |-> {}]]

\* Accounts::select_account
select_account(a, index) ==
    IF index \in DOMAIN a.accounts
    THEN [a EXCEPT !.currently_selected_account = Some(index)]
    ELSE a

\* Accounts::clear_selected_account
clear_selected_account(a) == [a EXCEPT !.currently_selected_account = None]

\* Accounts::add_account: a pubkey the list has is not added again
add_account(a, pk) ==
    IF pk \in Range(a.accounts) THEN a
    ELSE [a EXCEPT !.accounts = Append(@, pk)]

\* Vec::remove
SeqRemove(seq, index) == [i \in 1 .. Len(seq) - 1 |-> IF i < index THEN seq[i] ELSE seq[i + 1]]

\* Accounts::remove_account that reselects the last account whenever the
\* selected one is removed
remove_account_select_last(a, index) ==
    IF index \notin DOMAIN a.accounts THEN a
    ELSE LET a1 == [a EXCEPT !.accounts = SeqRemove(@, index)]
             selected_index == a.currently_selected_account[1]
         IN  IF ~IsSome(a.currently_selected_account) THEN a1
             ELSE IF selected_index > index THEN select_account(a1, selected_index - 1)
             ELSE IF selected_index < index THEN a1
             ELSE IF a1.accounts = << >> THEN clear_selected_account(a1)
             ELSE select_account(a1, Len(a1.accounts))

\* a remove_account that leaves the selected index alone when an account before
\* the selected one is removed
remove_account_keeps_index(a, index) ==
    IF index \notin DOMAIN a.accounts THEN a
    ELSE LET a1 == [a EXCEPT !.accounts = SeqRemove(@, index)]
             selected_index == a.currently_selected_account[1]
         IN  IF ~IsSome(a.currently_selected_account) THEN a1
             ELSE IF selected_index # index THEN a1
             ELSE IF a1.accounts = << >> THEN clear_selected_account(a1)
             ELSE IF index > Len(a1.accounts) THEN select_account(a1, Len(a1.accounts))
             ELSE select_account(a1, index)

\* Accounts::remove_account (indexes from 1)
remove_account(a, index) ==
    IF index \notin DOMAIN a.accounts THEN a
    ELSE LET a1 == [a EXCEPT !.accounts = SeqRemove(@, index)]
             selected_index == a.currently_selected_account[1]
         IN  IF ~IsSome(a.currently_selected_account) THEN a1
             ELSE IF selected_index > index THEN select_account(a1, selected_index - 1)
             ELSE IF selected_index < index THEN a1
             ELSE IF a1.accounts = << >> THEN clear_selected_account(a1)
             ELSE IF index > Len(a1.accounts) THEN select_account(a1, Len(a1.accounts))
             ELSE select_account(a1, index)

\* Accounts::get_selected_account_data
get_selected_account_data(a) ==
    IF /\ IsSome(a.currently_selected_account)
       /\ a.currently_selected_account[1] \in DOMAIN a.accounts
       /\ a.accounts[a.currently_selected_account[1]] \in DOMAIN a.account_data
    THEN Some(a.account_data[a.accounts[a.currently_selected_account[1]]])
    ELSE None

\* the closures passed to get_combined_relays: |_| true, |relay|
\* relay.is_readable() and |relay| relay.is_writable()
RelayFilters == {"all", "readable", "writable"}

PassesFilter(filter, x) ==
    \/ filter = "all"
    \/ filter = "readable" /\ is_readable(x)
    \/ filter = "writable" /\ is_writable(x)

\* a get_combined_relays that adds the bootstrap relays in every case
get_combined_relays_always_bootstrap(a, data_option, filter) ==
    LET keep(x) == PassesFilter(filter, x)
        relays  == IF IsSome(data_option)
                   THEN {x \in data_option[1].relay.advertised : keep(x)}
                   ELSE {}
    IN  relays \cup {x \in bootstrap_relays : keep(x)}

\* Accounts::get_combined_relays
get_combined_relays(a, data_option, filter) ==
    LET keep(x) == PassesFilter(filter, x)
        relays  == IF IsSome(data_option)
                   THEN {x \in data_option[1].relay.advertised : keep(x)}
                   ELSE {}
    IN  IF relays = {} THEN {x \in bootstrap_relays : keep(x)} ELSE relays

\* Accounts::get_all_selected_account_relays
get_all_selected_account_relays(a) ==
    get_combined_relays(a, get_selected_account_data(a), "all")

\* AccountRelayData::deactivate and AccountMutedData::deactivate, on the
\* `part` ("relay" or "muted") of the data of pk
deactivate(a, pk, part) ==
    LET id == a.account_data[pk][part].sub_remote_id
    IN  IF ~IsSome(id) THEN [a EXCEPT !.w = Panic(@)]
        ELSE [a EXCEPT !.w = unsubscribe_remote_id(@, id[1]).w,
                       !.account_data[pk][part].sub_remote_id = None]

\* AccountRelayData::activate and AccountMutedData::activate: a SubSpec with no
\* constraints and a new uuid
activate(a, pk, part, default_relays) ==
    LET remote_id == Len(a.w.subs) + 1
        kinds == IF part = "relay" THEN RelayListKinds ELSE MutedListKinds
        subspec == SubSpec(remote_id, kinds, FALSE, FALSE, FALSE, {}, {})
    IN  IF IsSome(a.account_data[pk][part].sub_remote_id) THEN [a EXCEPT !.w = Panic(@)]
        ELSE [a EXCEPT !.w = subscribe(@, subspec, default_relays),
                       !.account_data[pk][part].sub_remote_id = Some(remote_id)]

\* Accounts::update, "Do we need to deactivate any existing account subs?": one
\* turn of the loop
deactivate_account(a, ndx) ==
    LET pk == a.accounts[ndx]
        a1 == IF IsSome(a.account_data[pk].relay.sub_remote_id)
              THEN deactivate(a, pk, "relay")
              ELSE a
    IN  IF Some(ndx) = a.currently_selected_account \/ pk \notin DOMAIN a.account_data
        THEN a
        ELSE IF IsSome(a1.account_data[pk].muted.sub_remote_id)
             THEN deactivate(a1, pk, "muted")
        ELSE a1

\* the loop over self.accounts.iter().enumerate(), from ndx on
RECURSIVE deactivate_unselected(_, _)
deactivate_unselected(a, ndx) ==
    IF ndx > Len(a.accounts) THEN a
    ELSE deactivate_unselected(deactivate_account(a, ndx), ndx + 1)

\* delta_accounts, handle_added_account and handle_removed_account
apply_delta_accounts(a) ==
    [a EXCEPT !.account_data =
        [pk \in Range(a.accounts) |->
            IF pk \in DOMAIN @ THEN @[pk] ELSE AccountDataNew]]

\* Accounts::update, "Do we need to activate account subs?"
activate_selected(a) ==
    LET default_relays == get_all_selected_account_relays(a)
        pk == a.accounts[a.currently_selected_account[1]]
        a1 == IF ~IsSome(a.account_data[pk].relay.sub_remote_id)
              THEN activate(a, pk, "relay", default_relays)
              ELSE a
    IN  IF ~IsSome(get_selected_account_data(a)) THEN a
        ELSE IF ~IsSome(a1.account_data[pk].muted.sub_remote_id)
             THEN activate(a1, pk, "muted", default_relays)
        ELSE a1

\* Accounts::update that never deactivates
update_without_deactivation(a) == activate_selected(apply_delta_accounts(a))

\* Accounts::update
update(a) == activate_selected(apply_delta_accounts(deactivate_unselected(a, 1)))

----------------------------------------------------------------------------
(* The Accounts specification: the UI adds, removes and selects accounts and *)
(* calls update and process_relays                                           *)

PubKeys == {"pk1", "pk2"}

CommitAccounts(a) ==
    /\ Commit(a.w)
    /\ accounts' = a.accounts
    /\ currently_selected_account' = a.currently_selected_account
    /\ account_data' = a.account_data

\* what relays deliver to the account subscriptions
AcctEventsOf(w) == {ev \in EventsOf(w) : ev.kind \in {"Opened", "Closed", "Error", "Eose"}}

\* the UI calls process_relays every frame: it finds one event or none
AcctBatches(w) == {<< >>} \cup {<<ev>> : ev \in AcctEventsOf(w)}

InitAcct ==
    /\ Start(SubManNew(EmptyMap))
    /\ now = 0
    /\ StartAccounts(AccountsNew)
    /\ rcvr = RcvrNew
    /\ StartOthers

AddAccount ==
    /\ ~panicked
    /\ \E pk \in PubKeys : CommitAccounts(add_account(AcctWorld, pk))
    /\ UNCHANGED <<now, rcvr, othervars>>

RemoveAccount ==
    /\ ~panicked
    /\ \E index \in DOMAIN accounts : CommitAccounts(remove_account(AcctWorld, index))
    /\ UNCHANGED <<now, rcvr, othervars>>

SelectAccount ==
    /\ ~panicked
    /\ \E index \in DOMAIN accounts : CommitAccounts(select_account(AcctWorld, index))
    /\ UNCHANGED <<now, rcvr, othervars>>

Update ==
    /\ ~panicked
    /\ Len(update(AcctWorld).w.subs) <= 2 * MaxActivations
    /\ CommitAccounts(update(AcctWorld))
    /\ UNCHANGED <<now, rcvr, othervars>>

AcctProcessRelays ==
    /\ ~panicked
    /\ \E evs \in AcctBatches(World) :
          Commit(process_relays(World, evs, get_all_selected_account_relays(AcctWorld), now))
    /\ UNCHANGED <<now, acctvars, rcvr, othervars>>

NextAcct ==
    \/ AddAccount
    \/ RemoveAccount
    \/ SelectAccount
    \/ Update
    \/ AcctProcessRelays

SpecAcct == InitAcct /\ [][NextAcct]_vars

----------------------------------------------------------------------------
(* Accounts with keypairs: the advertised relay set of the selected account   *)
(* (accounts.rs).  `advertised` is an Arc<Mutex<BTreeSet<RelaySpec>>>; the UI *)
(* thread is its only user here.                                              *)

\* the Accounts world with the secret keys of its keypairs, needs_relay_config,
\* the events published so far and the state of the UI thread
KeyWorld ==
    [a |-> AcctWorld, secret_keys |-> secret_keys,
     needs_relay_config |-> needs_relay_config, published |-> published, hung |-> hung]

\* the tags publish_nip65_relays writes: one r tag per relay, with "read" if
\* the read marker is set, else "write" if the write marker is set
nip65_tags(advertised) ==
    {IF rs.has_read_marker THEN <<"r", rs.url, "read">>
     ELSE IF rs.has_write_marker THEN <<"r", rs.url, "write">>
     ELSE <<"r", rs.url>> : rs \in advertised}

\* a harvest that takes an r tag without marker for both markers set
harvest_nip65_relays_both_implied(tags) ==
    {RelaySpec(canonicalize_url(tag[2]),
               Len(tag) < 3 \/ tag[3] = "read",
               Len(tag) < 3 \/ tag[3] = "write") :
        tag \in {x \in tags : Len(x) >= 2 /\ x[1] = "r"}}

\* AccountRelayData::harvest_nip65_relays on the tags of the notes found
harvest_nip65_relays(tags) ==
    {RelaySpec(canonicalize_url(tag[2]),
               Len(tag) >= 3 /\ tag[3] = "read",
               Len(tag) >= 3 /\ tag[3] = "write") :
        tag \in {x \in tags : Len(x) >= 2 /\ x[1] = "r"}}

\* AccountRelayData::publish_nip65_relays for the account pk.  It takes the lock
\* of `advertised`.  `held`: the calling thread holds that lock already; the
\* second lock() of std::sync::Mutex on one thread does not return, it panics
\* or blocks for ever (`relock`), whichever the platform's mutex does.
publish_nip65_relays(k, pk, held, relock) ==
    IF held
    THEN IF relock = "panic" THEN [k EXCEPT !.a.w = Panic(@)] ELSE [k EXCEPT !.hung = TRUE]
    ELSE [k EXCEPT !.published =
             Append(@, [kind |-> 10002, content |-> "",
                        tags |-> nip65_tags(k.a.account_data[pk].relay.advertised)])]

\* Accounts::modify_advertised_relays.  The MutexGuard bound by
\* `let advertised = &mut ...lock().unwrap()` lives to the end of the block, so
\* it is held across the call of publish_nip65_relays.
modify_advertised_relays(k, relay_url, action, relock) ==
    LET url == canonicalize_url(relay_url)
        a == k.a
        index == a.currently_selected_account[1]
        pk == a.accounts[index]
        advertised == a.account_data[pk].relay.advertised
        seeded == IF advertised = {} THEN bootstrap_relays ELSE advertised
        modified == IF action = "Add"
                    THEN seeded \cup {RelaySpec(url, FALSE, FALSE)}
                    ELSE seeded \ {RelaySpec(url, FALSE, FALSE)}
        k1 == [k EXCEPT !.a.account_data[pk].relay.advertised = modified,
                        !.needs_relay_config = TRUE]
    IN  IF ~IsSome(a.currently_selected_account) THEN k
        ELSE IF index \notin DOMAIN a.accounts THEN k
        ELSE IF pk \notin DOMAIN a.account_data THEN k
        ELSE IF pk \in k.secret_keys THEN publish_nip65_relays(k1, pk, TRUE, relock)
        ELSE k1

\* Accounts::contains_account: the first entry with that pubkey
contains_account(k, pk) ==
    LET found == {i \in DOMAIN k.a.accounts : k.a.accounts[i] = pk}
        index == CHOOSE i \in found : \A j \in found : i <= j
    IN  IF found = {} THEN None
        ELSE Some([has_nsec |-> pk \in k.secret_keys, index |-> index])

\* an add_account that moves an upgraded keypair to the end of the list
add_account_kp_upgrade_moves(k, pk, nsec) ==
    LET contains_acc == contains_account(k, pk)
    IN  IF IsSome(contains_acc)
        THEN IF nsec /\ ~contains_acc[1].has_nsec
             THEN [k |-> [k EXCEPT !.secret_keys = @ \cup {pk},
                                   !.a.accounts = Append(SeqRemove(@, contains_acc[1].index), pk)],
                   switch_to_index |-> Len(k.a.accounts)]
             ELSE [k |-> k, switch_to_index |-> contains_acc[1].index]
        ELSE [k |-> [k EXCEPT !.a = add_account(@, pk),
                              !.secret_keys = IF nsec THEN @ \cup {pk} ELSE @],
              switch_to_index |-> Len(k.a.accounts) + 1]

\* Accounts::add_account with a Keypair (pubkey, secret key or none): the
\* Accounts it leaves and the index of its SwitchAccountAction (from 1)
add_account_kp(k, pk, nsec) ==
    LET contains_acc == contains_account(k, pk)
    IN  IF IsSome(contains_acc)
        THEN IF nsec /\ ~contains_acc[1].has_nsec
             THEN [k |-> [k EXCEPT !.secret_keys = @ \cup {pk},
                                   !.a.accounts[contains_acc[1].index] = pk],
                   switch_to_index |-> contains_acc[1].index]
             ELSE [k |-> k, switch_to_index |-> contains_acc[1].index]
        ELSE [k |-> [k EXCEPT !.a = add_account(@, pk),
                              !.secret_keys = IF nsec THEN @ \cup {pk} ELSE @],
              switch_to_index |-> Len(k.a.accounts) + 1]

(* The keypair specification: the UI adds keypairs with or without a secret  *)
(* key, removes and selects accounts, calls update and edits the advertised   *)
(* relays of the selected account.                                            *)

\* the relay urls the UI passes
RelayUrlInputs == {A0, B1}

\* what a second lock() by the thread that holds the Mutex can do
RelockOutcomes == {"panic", "deadlock"}

CommitKeys(k) ==
    /\ CommitAccounts(k.a)
    /\ secret_keys' = k.secret_keys
    /\ needs_relay_config' = k.needs_relay_config
    /\ published' = k.published
    /\ hung' = k.hung

\* Accounts::add_account with a Keypair: a new pubkey is pushed; a known pubkey
\* held without its secret key is replaced by the keypair that has it
AddKeypair ==
    /\ ~panicked /\ ~hung
    /\ \E pk \in PubKeys, nsec \in BOOLEAN :
          CommitKeys(add_account_kp(KeyWorld, pk, nsec).k)
    /\ UNCHANGED <<now, rcvr, unknown_ids, requests, dropped, mute_fun>>

\* Accounts::remove_account, the keypair leaves the list with its secret key
RemoveKeypair ==
    /\ ~panicked /\ ~hung
    /\ \E index \in DOMAIN accounts :
          CommitKeys([KeyWorld EXCEPT !.a = remove_account(@, index),
                                      !.secret_keys = @ \ {accounts[index]}])
    /\ UNCHANGED <<now, rcvr, unknown_ids, requests, dropped, mute_fun>>

AddAdvertisedRelay ==
    /\ ~panicked /\ ~hung
    /\ \E relay_to_add \in RelayUrlInputs, relock \in RelockOutcomes :
          CommitKeys(modify_advertised_relays(KeyWorld, relay_to_add, "Add", relock))
    /\ UNCHANGED <<now, rcvr, unknown_ids, requests, dropped, mute_fun>>

RemoveAdvertisedRelay ==
    /\ ~panicked /\ ~hung
    /\ \E relay_to_remove \in RelayUrlInputs, relock \in RelockOutcomes :
          CommitKeys(modify_advertised_relays(KeyWorld, relay_to_remove, "Remove", relock))
    /\ UNCHANGED <<now, rcvr, unknown_ids, requests, dropped, mute_fun>>

NextKeys ==
    \/ AddKeypair
    \/ RemoveKeypair
    \/ ~hung /\ SelectAccount
    \/ ~hung /\ Update
    \/ AddAdvertisedRelay
    \/ RemoveAdvertisedRelay

SpecKeys == InitAcct /\ [][NextKeys]_vars

(* The account data specifications: the harvest tasks of the selected        *)
(* account replace its advertised relays and its mute list, the UI edits the  *)
(* advertised relays and asks for the mute predicate.  The accounts have no   *)
(* secret key, so nothing is published.                                       *)

\* the tags of the kind 10002 events the store hands to the relay-list task
Nip65Tags ==
    {<<"r", A0>>, <<"r", A1, "read">>, <<"r", B1, "write">>, <<"r", B1>>,
     <<"r", B1, "other">>, <<"alt", "relays">>, <<"r">>}

Nip65Events == {tags \in SUBSET Nip65Tags : Cardinality(tags) <= 2}

\* the tags of the kind 10000 events the store hands to the mute-list task
Nip51Events == SUBSET {<<"p", "pk1">>, <<"p", "pk2">>, <<"alt", "mutes">>}

\* AccountMutedData::harvest_nip51_muted, the muted pubkeys
harvest_nip51_muted(tags) == {tag[2] : tag \in {x \in tags : Len(x) >= 2 /\ x[1] = "p"}}

\* a mutefun whose closure keeps the Arc of the mute list, not a clone
mutefun_shares(a) ==
    LET index == a.currently_selected_account[1]
    IN  IF /\ IsSome(a.currently_selected_account)
           /\ index \in DOMAIN a.accounts
           /\ a.accounts[index] \in DOMAIN a.account_data
        THEN [captures |-> "arc", pubkey |-> a.accounts[index]]
        ELSE [captures |-> "nothing"]

\* Accounts::mutefun: the closure it returns, with what the closure captured
mutefun(a) ==
    LET index == a.currently_selected_account[1]
    IN  IF /\ IsSome(a.currently_selected_account)
           /\ index \in DOMAIN a.accounts
           /\ a.accounts[index] \in DOMAIN a.account_data
        THEN [captures |-> "clone", muted |-> a.account_data[a.accounts[index]].muted.muted]
        ELSE [captures |-> "nothing"]

\* calling a closure of mutefun on a note by `author`, in the Accounts a
is_muted(f, a, author) ==
    CASE f.captures = "clone" -> author \in f.muted
      [] f.captures = "arc" ->
            f.pubkey \in DOMAIN a.account_data /\ author \in a.account_data[f.pubkey].muted.muted
      [] f.captures = "nothing" -> FALSE

\* the slot of the subscription of `part` of the account pk, if it is active
DataSub(pk, part) ==
    IF pk \in DOMAIN account_data /\ IsSome(account_data[pk][part].sub_remote_id)
       /\ account_data[pk][part].sub_remote_id[1] \in DOMAIN remote
    THEN Some(remote[account_data[pk][part].sub_remote_id[1]])
    ELSE None

\* the harvest task of `part` of pk is in its loop: its receiver lives
TaskRuns(pk, part) == IsSome(DataSub(pk, part)) /\ DataSub(pk, part)[1] \notin dropped

\* the relay-list task gets note keys and replaces the advertised set
HarvestRelays ==
    /\ ~panicked
    /\ \E pk \in DOMAIN account_data, tags \in Nip65Events :
          /\ TaskRuns(pk, "relay")
          /\ account_data' = [account_data EXCEPT
                                 ![pk].relay.advertised = harvest_nip65_relays(tags)]
    /\ UNCHANGED <<submanvars, now, accounts, currently_selected_account, rcvr, othervars>>

\* the mute-list task gets note keys and replaces the mute list
HarvestMuted ==
    /\ ~panicked
    /\ \E pk \in DOMAIN account_data, tags \in Nip51Events :
          /\ TaskRuns(pk, "muted")
          /\ account_data' = [account_data EXCEPT
                                 ![pk].muted.muted = harvest_nip51_muted(tags)]
    /\ UNCHANGED <<submanvars, now, accounts, currently_selected_account, rcvr, othervars>>

\* the mute list of the selected account, if it is selected and has data
selected_muted(a) ==
    IF IsSome(get_selected_account_data(a))
    THEN Some(get_selected_account_data(a)[1].muted.muted)
    ELSE None

\* the UI calls mutefun() and keeps the predicate; `at_call` is the mute list
\* of the selected account during the call
MuteFun ==
    /\ ~panicked
    /\ mute_fun' = Some([f |-> mutefun(AcctWorld), at_call |-> selected_muted(AcctWorld)])
    /\ UNCHANGED <<submanvars, now, acctvars, rcvr, unknown_ids, requests, dropped,
                   secret_keys, needs_relay_config, published, hung>>

\* the relay list of the selected account: harvested, edited, used
NextRelayData ==
    \/ AddAccount
    \/ SelectAccount
    \/ Update
    \/ HarvestRelays
    \/ AddAdvertisedRelay
    \/ RemoveAdvertisedRelay

SpecRelayData == InitAcct /\ [][NextRelayData]_vars

\* the mute list of the selected account: harvested, and captured by mutefun
NextMuted ==
    \/ AddAccount
    \/ SelectAccount
    \/ Update
    \/ HarvestMuted
    \/ MuteFun

SpecMuted == InitAcct /\ [][NextMuted]_vars

\* the harvest tasks may leave their loops and drop their receivers
NextTasks ==
    \/ AddAccount
    \/ RemoveAccount
    \/ SelectAccount
    \/ Update
    \/ DropReceiver

SpecTasks == InitAcct /\ [][NextTasks]_vars

(* The account list specification: remove_account and select_account on every *)
(* list of up to four accounts, with any account of the list, or none,        *)
(* selected.                                                                  *)

ListPubKeys == {"pk1", "pk2", "pk3", "pk4"}

\* the lists add_account can have built: no pubkey twice
AccountLists ==
    {l \in UNION {[1 .. n -> ListPubKeys] : n \in 0 .. Cardinality(ListPubKeys)} :
        \A i, j \in DOMAIN l : l[i] = l[j] => i = j}

InitList ==
    /\ Start(SubManNew(EmptyMap))
    /\ now = 0
    /\ accounts \in AccountLists
    /\ currently_selected_account \in {None} \cup {Some(i) : i \in DOMAIN accounts}
    /\ account_data = EmptyMap
    /\ rcvr = RcvrNew
    /\ StartOthers

NextList ==
    \/ AddAccount
    \/ RemoveAccount
    \/ SelectAccount

SpecList == InitList /\ [][NextList]_vars

(* The selection specification: from the empty list, the UI adds any of four  *)
(* accounts, removes and selects accounts and clears the selection.           *)

AddListedAccount ==
    /\ \E pk \in ListPubKeys : CommitAccounts(add_account(AcctWorld, pk))
    /\ UNCHANGED <<now, rcvr, othervars>>

ClearSelectedAccount ==
    /\ CommitAccounts(clear_selected_account(AcctWorld))
    /\ UNCHANGED <<now, rcvr, othervars>>

NextSelection ==
    \/ AddListedAccount
    \/ RemoveAccount
    \/ SelectAccount
    \/ ClearSelectedAccount

SpecSelection == InitAcct /\ [][NextSelection]_vars

----------------------------------------------------------------------------
(* SubReceiver (subman.rs) on a subscription with a local part only *)

\* a poll that reads the notes without taking them
poll_without_taking(w, s, max_notes) ==
    IF ~IsSome(w.subs[s].local)
    THEN [w |-> Panic(w), keys |-> << >>]
    ELSE [w |-> w,
          keys |-> ndb_poll_for_notes(w.ndb, w.subs[s].local[1].local_id, max_notes).keys]

\* SubReceiver::poll: the keys returned and the store after the call
poll(w, s, max_notes) ==
    IF ~IsSome(w.subs[s].local)
    THEN [w |-> Panic(w), keys |-> << >>]
    ELSE LET r == ndb_poll_for_notes(w.ndb, w.subs[s].local[1].local_id, max_notes)
         IN  [w |-> [w EXCEPT !.ndb = r.ndb], keys |-> r.keys]

\* SubscriptionStream::next is ready when the subscription has a note queued
stream_ready(w, s) == w.ndb.subs[w.subs[s].local[1].local_id].queue # << >>

\* a local stream that hands over its whole queue
next_local_whole_queue(w, s) ==
    poll(w, s, Len(w.ndb.subs[w.subs[s].local[1].local_id].queue))

\* SubReceiver::next, only local sub, once the stream is ready: Ok(notes)
next_local(w, s) == poll(w, s, notes_per_await)

----------------------------------------------------------------------------
(* The receiver specification: one only-local subscription, a main task that  *)
(* ingests notes, and one consumer that polls or awaits next()               *)

\* the notes the main task ingests: three match the filter, one does not
LocalNotes ==
    {[id |-> "n1", kind |-> 1], [id |-> "n2", kind |-> 1], [id |-> "n3", kind |-> 1],
     [id |-> "m1", kind |-> 7]}

\* the only-local specs of the tests, one-shot or not
LocalSpecChoices == {SubSpec(1, TextKinds, o, TRUE, FALSE, {}, {}) : o \in BOOLEAN}

\* the consumer's receiver is that of the first subscription
Receiver == 1

SubscribeLocal ==
    /\ ~panicked
    /\ subs = << >>
    /\ \E spec \in LocalSpecChoices : Commit(subscribe(World, spec, {}))
    /\ UNCHANGED <<now, acctvars, rcvr, othervars>>

\* ndb.process_event from the main task
Ingest ==
    /\ ~panicked
    /\ \E note \in LocalNotes :
          /\ note \notin Range(ndb.notes)
          /\ Commit([World EXCEPT !.ndb = ndb_process_event(@, note)])
    /\ UNCHANGED <<now, acctvars, rcvr, othervars>>

Poll ==
    /\ ~panicked
    /\ subs # << >>
    /\ ~rcvr.awaiting
    /\ \E max_notes \in 1 .. MaxPoll :
          LET r == poll(World, Receiver, max_notes)
          IN  /\ Commit(r.w)
              /\ rcvr' = [rcvr EXCEPT !.delivered = @ \o r.keys, !.ret = r.keys,
                                      !.woken = FALSE]
    /\ UNCHANGED <<now, acctvars, othervars>>

\* the consumer calls next(): it returns at once when the stream is ready
NextReady ==
    /\ ~panicked
    /\ subs # << >>
    /\ ~rcvr.awaiting
    /\ stream_ready(World, Receiver)
    /\ LET r == next_local(World, Receiver)
       IN  /\ Commit(r.w)
           /\ rcvr' = [rcvr EXCEPT !.delivered = @ \o r.keys, !.ret = r.keys,
                                   !.woken = FALSE]
    /\ UNCHANGED <<now, acctvars, othervars>>

\* the consumer calls next() and suspends: nothing is queued
NextSuspend ==
    /\ ~panicked
    /\ subs # << >>
    /\ ~rcvr.awaiting
    /\ ~stream_ready(World, Receiver)
    /\ rcvr' = [rcvr EXCEPT !.awaiting = TRUE]
    /\ UNCHANGED <<submanvars, now, acctvars, othervars>>

\* the store wakes the suspended consumer, which returns from next()
NextResume ==
    /\ ~panicked
    /\ rcvr.awaiting
    /\ stream_ready(World, Receiver)
    /\ LET r == next_local(World, Receiver)
       IN  /\ Commit(r.w)
           /\ rcvr' = [awaiting |-> FALSE, woken |-> TRUE,
                       delivered |-> rcvr.delivered \o r.keys, ret |-> r.keys]
    /\ UNCHANGED <<now, acctvars, othervars>>

NextLocal ==
    \/ SubscribeLocal
    \/ Ingest
    \/ Poll
    \/ NextReady
    \/ NextSuspend
    \/ NextResume

SpecLocal == InitAcct /\ [][NextLocal]_vars

\* the runtime runs a woken task
FairSpecLocal == SpecLocal /\ WF_vars(NextResume)

----------------------------------------------------------------------------
(* The merged receiver: SubReceiver::next on a receiver with a remote part.  *)
(* A call of next is one poll of its future: it returns, or it is Pending    *)
(* and the consumer stays suspended until it is polled again.                *)

\* a next that does not notice the sender being dropped
next_ignores_closed(w, s, receiver) ==
    LET local_ready == /\ receiver.localsub
                       /\ s \in DOMAIN w.ndb.subs
                       /\ w.ndb.subs[s].queue # << >>
        ended_ready == receiver.remotesub /\ w.chan[s] # << >>
        r == ndb_poll_for_notes(w.ndb, s, notes_per_await)
        notes == [w |-> [w EXCEPT !.ndb = r.ndb], ret |-> "Ok", keys |-> r.keys]
        ended == [w |-> [w EXCEPT !.chan[s] = Tail(@)], ret |-> "StreamEnded", keys |-> << >>]
        pending == [w |-> w, ret |-> "Pending", keys |-> << >>]
    IN  IF receiver.localsub /\ receiver.remotesub
        THEN (IF local_ready THEN {notes} ELSE {}) \cup
             (IF ended_ready THEN {ended} ELSE {}) \cup
             (IF ~local_ready /\ ~ended_ready THEN {pending} ELSE {})
        ELSE IF receiver.localsub THEN (IF local_ready THEN {notes} ELSE {pending})
        ELSE IF receiver.remotesub THEN (IF ended_ready THEN {ended} ELSE {pending})
        ELSE {[w |-> w, ret |-> "InternalError", keys |-> << >>]}

\* SubReceiver::next: the outcomes one poll of the future can have.  The local
\* stream is ready when a key is queued; rx_ended is ready when an end-signal
\* is queued (Some) or the SubState with the sender is gone (None);
\* futures::select! takes any one of the ready branches
next(w, s, receiver) ==
    LET local_ready == /\ receiver.localsub
                       /\ s \in DOMAIN w.ndb.subs
                       /\ w.ndb.subs[s].queue # << >>
        ended_ready == /\ receiver.remotesub
                       /\ (w.chan[s] # << >> \/ ~IsSome(w.subs[s].remote))
        r == ndb_poll_for_notes(w.ndb, s, notes_per_await)
        notes == [w |-> [w EXCEPT !.ndb = r.ndb], ret |-> "Ok", keys |-> r.keys]
        ended == [w |-> IF w.chan[s] # << >> THEN [w EXCEPT !.chan[s] = Tail(@)] ELSE w,
                  ret |-> "StreamEnded", keys |-> << >>]
        pending == [w |-> w, ret |-> "Pending", keys |-> << >>]
    IN  IF receiver.localsub /\ receiver.remotesub
        THEN (IF local_ready THEN {notes} ELSE {}) \cup
             (IF ended_ready THEN {ended} ELSE {}) \cup
             (IF ~local_ready /\ ~ended_ready THEN {pending} ELSE {})
        ELSE IF receiver.localsub THEN (IF local_ready THEN {notes} ELSE {pending})
        ELSE IF receiver.remotesub THEN (IF ended_ready THEN {ended} ELSE {pending})
        ELSE {[w |-> w, ret |-> "InternalError", keys |-> << >>]}

\* the specs with a remote part: normal, normal one-shot and prefetch
RemoteSpecChoices ==
    {SubSpec(1, TextKinds, FALSE, FALSE, FALSE, {}, {}),
     SubSpec(1, TextKinds, TRUE, FALSE, FALSE, {}, {}),
     SubSpec(1, TextKinds, TRUE, FALSE, TRUE, {}, {})}

\* which source of the consumer's receiver was ready before the other, until
\* the first call of next has returned
FirstReady(w) ==
    LET local_ready == Receiver \in DOMAIN w.ndb.subs /\ w.ndb.subs[Receiver].queue # << >>
        ended_ready == w.chan[Receiver] # << >> \/ ~IsSome(w.subs[Receiver].remote)
    IN  IF rcvr.first # "none" THEN rcvr.first
        ELSE IF local_ready /\ ~ended_ready THEN "local"
        ELSE IF ended_ready /\ ~local_ready THEN "ended"
        ELSE "none"

\* the consumer subscribes and keeps the receiver
SubscribeRemote ==
    /\ ~panicked
    /\ subs = << >>
    /\ \E spec \in RemoteSpecChoices, default_relays \in DefaultChoices :
          /\ Commit(subscribe(World, spec, default_relays))
          /\ rcvr' = [awaiting |-> FALSE, woken |-> FALSE, delivered |-> << >>,
                      ret |-> << >>, result |-> "none", first |-> "none",
                      receiver |-> subscribe_returns(World, spec, default_relays).receiver[1]]
    /\ UNCHANGED <<now, acctvars, othervars>>

\* the main task handles what the relays sent
ProcessRelaysRemote ==
    /\ ~panicked
    /\ subs # << >>
    /\ \E evs \in Batches(World), default_relays \in DefaultChoices :
          LET w1 == process_relays(World, evs, default_relays, now)
          IN  /\ Commit(w1)
              /\ rcvr' = [rcvr EXCEPT !.first = FirstReady(w1)]
    /\ UNCHANGED <<now, acctvars, othervars>>

\* the main task unsubscribes
UnsubscribeRemote ==
    /\ ~panicked
    /\ subs # << >>
    /\ LET w1 == unsubscribe_remote_id(World, Receiver).w
       IN  /\ Commit(w1)
           /\ rcvr' = [rcvr EXCEPT !.first = FirstReady(w1)]
    /\ UNCHANGED <<now, acctvars, othervars>>

\* the runtime polls the consumer's next(): a first poll when the consumer
\* calls it, a later one when the consumer is suspended in it
NextPoll ==
    /\ ~panicked
    /\ subs # << >>
    /\ \E o \in next(World, Receiver, rcvr.receiver) :
          /\ Commit(o.w)
          /\ rcvr' = IF o.ret = "Pending"
                     THEN [rcvr EXCEPT !.awaiting = TRUE]
                     ELSE [rcvr EXCEPT !.awaiting = FALSE, !.woken = rcvr.awaiting,
                                       !.delivered = @ \o o.keys, !.ret = o.keys,
                                       !.result = o.ret, !.first = "returned"]
    /\ UNCHANGED <<now, acctvars, othervars>>

NextRemote ==
    \/ SubscribeRemote
    \/ ProcessRelaysRemote
    \/ UnsubscribeRemote
    \/ NextPoll

SpecRemote == InitAcct /\ [][NextRemote]_vars

----------------------------------------------------------------------------
(* UnknownIds (unknowns.rs): the bag of ids to look up, with its debouncer.  *)
(* An UnknownId is [kind |-> "Pubkey" or "Id", id |-> ...]; the bag maps it  *)
(* to its set of relay hints.  Instants are whole seconds of `now`.          *)

UnknownId(kind, id) == [kind |-> kind, id |-> id]

\* UnknownIds::ready_to_send at instant t
ready_to_send(u, t) ==
    IF u.ids = EmptyMap THEN FALSE
    ELSE IF u.first_updated = u.last_updated THEN TRUE
    ELSE IF ~IsSome(u.last_updated) THEN TRUE
    ELSE t - u.last_updated[1] >= DEBOUNCE_SECS

\* UnknownIds::clear
clear(u) == [u EXCEPT !.ids = EmptyMap]

\* UnknownIds::mark_updated at instant t
mark_updated(u, t) ==
    [u EXCEPT !.first_updated = IF IsSome(@) THEN @ ELSE Some(t),
              !.last_updated = Some(t)]

\* HashMap::entry(id).or_default().extend(relays)
entry_extend(ids, id, relays) ==
    IF id \in DOMAIN ids
    THEN [ids EXCEPT ![id] = @ \cup relays]
    ELSE MapInsert(ids, id, relays)

\* UnknownIds::add_pubkey_if_missing; `have` is whether the local store has the
\* profile
add_pubkey_if_missing(u, pubkey, have, t) ==
    IF have THEN u
    ELSE mark_updated([u EXCEPT !.ids = entry_extend(@, UnknownId("Pubkey", pubkey), {})], t)

\* UnknownIds::add_note_id_if_missing; `have` is whether the local store has the
\* note
add_note_id_if_missing(u, note_id, have, t) ==
    IF have THEN u
    ELSE mark_updated([u EXCEPT !.ids = entry_extend(@, UnknownId("Id", note_id), {})], t)

\* get_unknown_note_ids: every id the note refers to that the store lacks enters
\* the bag with the relay hints of the mention
RECURSIVE get_unknown_note_ids(_, _)
get_unknown_note_ids(ids, found) ==
    IF found = {} THEN ids
    ELSE LET f == CHOOSE x \in found : TRUE
         IN  get_unknown_note_ids(entry_extend(ids, f.id, f.relays), found \ {f})

\* UnknownIds::update_from_note: the bag after it; updated iff it grew
update_from_note(u, found, t) ==
    LET u1 == [u EXCEPT !.ids = get_unknown_note_ids(@, found)]
    IN  IF Cardinality(DOMAIN u.ids) # Cardinality(DOMAIN u1.ids)
        THEN mark_updated(u1, t)
        ELSE u1

\* the empty RelayUrl: the bucket of the default relays
NoRelay == <<"", "">>

\* the relay urls that occur as hints, as the BTreeMap orders its keys
HintUrls == <<A0, A1, B1>>

\* slice::chunks that drops a last chunk shorter than chunk_size
chunks_exact(v, chunk_size) ==
    [c \in 1 .. (Len(v) \div chunk_size) |->
        SubSeq(v, (c - 1) * chunk_size + 1, c * chunk_size)]

\* slice::chunks(chunk_size): runs of chunk_size elements, the last one shorter
\* if the length is not a multiple
chunks(v, chunk_size) ==
    [c \in 1 .. ((Len(v) + chunk_size - 1) \div chunk_size) |->
        SubSeq(v, (c - 1) * chunk_size + 1,
               IF c * chunk_size < Len(v) THEN c * chunk_size ELSE Len(v))]

\* an ids_by_relay that asks the default relays only for the ids without hints
ids_by_relay_hinted_skip_default(ids, order, relay, kind) ==
    LET pushed(j) ==
            LET id == order[(j + 1) \div 2]
            IN  /\ id.kind = kind
                /\ IF j % 2 = 1 THEN relay = NoRelay /\ ids[id] = {}
                   ELSE relay \in ids[id]
        walk == SelectSeq([j \in 1 .. 2 * Len(order) |-> j], pushed)
    IN  [p \in 1 .. Len(walk) |-> order[(walk[p] + 1) \div 2].id]

\* ids_by_relay[relay], one of its two vectors: the ids of one kind pushed for
\* this relay while `order` (the iteration of the HashMap) visits the bag.  Each
\* id is visited with once("") and then with each of its hints: position 2i-1
\* of the walk is the default of order[i], position 2i its hint `relay`, if any.
ids_by_relay(ids, order, relay, kind) ==
    LET pushed(j) ==
            LET id == order[(j + 1) \div 2]
            IN  /\ id.kind = kind
                /\ IF j % 2 = 1 THEN relay = NoRelay ELSE relay \in ids[id]
        walk == SelectSeq([j \in 1 .. 2 * Len(order) |-> j], pushed)
    IN  [p \in 1 .. Len(walk) |-> order[(walk[p] + 1) \div 2].id]

\* the SubSpecs that generate_resolution_requests pushes for one relay bucket;
\* every SubSpec gets a Uuid of its own, which the model leaves out
bucket_subspecs(ids, order, relay) ==
    LET allowed == IF relay # NoRelay THEN {relay} ELSE {}
        pubkeys == chunks(ids_by_relay(ids, order, relay, "Pubkey"), MAX_CHUNK_IDS)
        noteids == chunks(ids_by_relay(ids, order, relay, "Id"), MAX_CHUNK_IDS)
    IN  [c \in 1 .. Len(pubkeys) |->
            SubSpec("uuid", <<[authors |-> pubkeys[c], kinds |-> {0}]>>,
                    TRUE, FALSE, TRUE, allowed, {})]
        \o
        [c \in 1 .. Len(noteids) |->
            SubSpec("uuid", <<[ids |-> noteids[c]]>>, TRUE, FALSE, TRUE, allowed, {})]

\* UnknownIds::generate_resolution_requests; `order` is the order in which the
\* HashMap hands out its entries
generate_resolution_requests(u, order) ==
    LET has_bucket(relay) ==
            \E id \in DOMAIN u.ids : relay = NoRelay \/ relay \in u.ids[id]
        relays == SelectSeq(<<NoRelay>> \o HintUrls, has_bucket)
        from(n) == IF n <= Len(relays) THEN bucket_subspecs(u.ids, order, relays[n])
                   ELSE << >>
    IN  from(1) \o from(2) \o from(3) \o from(4)

----------------------------------------------------------------------------
(* The UnknownIds specification: notes and accounts bring unknown ids, the   *)
(* caller clears the bag once it has sent the requests, time passes          *)

UnkPubkeys == {"p1", "p2"}

UnkNoteIds == {"e1"}

\* what get_unknown_note_ids finds in a note: nothing, an author without hint,
\* a mentioned event with a hint as written in the mention, an nprofile and an
\* nevent with hints
NoteFindings ==
    {{},
     {[id |-> UnknownId("Pubkey", "p1"), relays |-> {}]},
     {[id |-> UnknownId("Id", "e1"), relays |-> {A0}]},
     {[id |-> UnknownId("Pubkey", "p2"), relays |-> {A0}],
      [id |-> UnknownId("Id", "e1"), relays |-> {B1}]}}

AddPubkeyIfMissing ==
    /\ \E pubkey \in UnkPubkeys, have \in BOOLEAN :
          unknown_ids' = add_pubkey_if_missing(unknown_ids, pubkey, have, now)
    /\ UNCHANGED <<submanvars, now, acctvars, rcvr, requests, dropped, secret_keys,
                   needs_relay_config, published, hung, mute_fun>>

AddNoteIdIfMissing ==
    /\ \E note_id \in UnkNoteIds, have \in BOOLEAN :
          unknown_ids' = add_note_id_if_missing(unknown_ids, note_id, have, now)
    /\ UNCHANGED <<submanvars, now, acctvars, rcvr, requests, dropped, secret_keys,
                   needs_relay_config, published, hung, mute_fun>>

UpdateFromNote ==
    /\ \E found \in NoteFindings :
          unknown_ids' = update_from_note(unknown_ids, found, now)
    /\ UNCHANGED <<submanvars, now, acctvars, rcvr, requests, dropped, secret_keys,
                   needs_relay_config, published, hung, mute_fun>>

Clear ==
    /\ unknown_ids' = clear(unknown_ids)
    /\ UNCHANGED <<submanvars, now, acctvars, rcvr, requests, dropped, secret_keys,
                   needs_relay_config, published, hung, mute_fun>>

\* a second of the clock read by Instant::now()
TickUnknowns ==
    /\ now < MaxQuiet
    /\ now' = now + 1
    /\ UNCHANGED <<submanvars, acctvars, rcvr, othervars>>

NextUnknowns ==
    \/ AddPubkeyIfMissing
    \/ AddNoteIdIfMissing
    \/ UpdateFromNote
    \/ Clear
    \/ TickUnknowns

SpecUnknowns == InitAcct /\ [][NextUnknowns]_vars

----------------------------------------------------------------------------
(* The resolution request specification: bags of up to a thousand and one    *)
(* ids of a kind, numbered from 1, with and without relay hints; the caller   *)
(* generates the requests and clears the bag.                                 *)

\* bag sizes around the chunk size
PubkeyCounts ==
    {0, 1, MAX_CHUNK_IDS - 1, MAX_CHUNK_IDS, MAX_CHUNK_IDS + 1,
     2 * MAX_CHUNK_IDS, 2 * MAX_CHUNK_IDS + 1}

NoteIdCounts == {0, 1, MAX_CHUNK_IDS + 1}

\* the hints of id number i: none; a third of the ids hinted with one relay and
\* a third with two; or id number MAX_CHUNK_IDS hinted with the empty string
HintPatterns == {"none", "thirds", "empty"}

hints_of(pattern, i) ==
    IF pattern = "thirds" THEN (IF i % 3 = 0 THEN {A0} ELSE IF i % 3 = 1 THEN {A0, B1} ELSE {})
    ELSE IF pattern = "empty" /\ i = MAX_CHUNK_IDS THEN {NoRelay}
    ELSE {}

\* a bag of np pubkeys and nn note ids
BagOf(np, nn, pattern) ==
    [id \in {UnknownId("Pubkey", i) : i \in 1 .. np} \cup {UnknownId("Id", i) : i \in 1 .. nn}
        |-> hints_of(pattern, id.id)]

\* two of the orders in which a HashMap of these ids may be iterated
IterationOrders(ids) ==
    LET np == Cardinality({id \in DOMAIN ids : id.kind = "Pubkey"})
        n == Cardinality(DOMAIN ids)
        ascending == [i \in 1 .. n |-> IF i <= np THEN UnknownId("Pubkey", i)
                                       ELSE UnknownId("Id", i - np)]
    IN  {ascending, [i \in 1 .. n |-> ascending[n + 1 - i]]}

InitRequests ==
    /\ Start(SubManNew(EmptyMap))
    /\ now = 0
    /\ StartAccounts(AccountsNew)
    /\ rcvr = RcvrNew
    /\ \E np \in PubkeyCounts, nn \in NoteIdCounts, pattern \in HintPatterns :
          unknown_ids = [ids |-> BagOf(np, nn, pattern),
                         first_updated |-> Some(0), last_updated |-> Some(0)]
    /\ requests = << >>
    /\ dropped = {}
    /\ secret_keys = {}
    /\ needs_relay_config = TRUE
    /\ published = << >>
    /\ hung = FALSE
    /\ mute_fun = None

GenerateResolutionRequests ==
    /\ \E order \in IterationOrders(unknown_ids.ids) :
          requests' = generate_resolution_requests(unknown_ids, order)
    /\ UNCHANGED <<submanvars, now, acctvars, rcvr, unknown_ids, dropped, secret_keys,
                   needs_relay_config, published, hung, mute_fun>>

NextRequests ==
    \/ GenerateResolutionRequests
    \/ Clear

SpecRequests == InitRequests /\ [][NextRequests]_vars

----------------------------------------------------------------------------
(* Properties of the SubMan specification *)

Urls == {A0, A1, B1}

\* the state of relay r in the SubState of slot s, while the remote index holds it
EntryState(w, s, r) ==
    IF InRemote(w, s) /\ IsSome(w.subs[s].remote) /\ r \in DOMAIN RelaysOf(w.subs[s])
    THEN RelaysOf(w.subs[s])[r]
    ELSE "none"

\* in w, unsubscribing again by either id of sub is InternalError and changes nothing
SecondUnsubscribeFails(w, sub) ==
    /\ IsSome(sub.local) =>
          LET r2 == unsubscribe_local_id(w, sub.local[1].local_id)
          IN  r2.result = "InternalError" /\ r2.w = w
    /\ IsSome(sub.remote) =>
          LET r2 == unsubscribe_remote_id(w, sub.remote[1].remote_id)
          IN  r2.result = "InternalError" /\ r2.w = w

\* an unsubscribe that returned r for the SubState of slot s left it in no index
UnsubscribeRemoved(r, s) ==
    (r.result = "Ok" /\ ~r.w.panicked) =>
        /\ ~InLocal(r.w, s)
        /\ ~InRemote(r.w, s)
        /\ SecondUnsubscribeFails(r.w, subs[s])

\* C1: once unsubscribe_local_id or unsubscribe_remote_id has succeeded on the id
\* of a subscription, neither index holds its state, and another unsubscribe on
\* either of its ids returns InternalError and changes nothing; an id that has
\* left an index never comes back, so this stays so for every later call.
C1_UnsubscribeOnce ==
    /\ [](~panicked =>
            /\ \A id \in DOMAIN local :
                  UnsubscribeRemoved(unsubscribe_local_id(World, id), local[id])
            /\ \A id \in DOMAIN remote :
                  UnsubscribeRemoved(unsubscribe_remote_id(World, id), remote[id]))
    /\ [][\A id \in 1 .. Len(subs) :
             /\ id \notin DOMAIN local => id \notin DOMAIN local'
             /\ id \notin DOMAIN remote => id \notin DOMAIN remote']_vars

\* C1 witness: a subscription with both parts has been unsubscribed: its
\* end-signal was sent by unsubscribe_substate and both indexes are empty
C1_Witness ==
    /\ Len(subs) = 1
    /\ chan[1] = <<"unsubscribe_substate">>
    /\ 1 \in DOMAIN ndb.subs
    /\ local = EmptyMap
    /\ remote = EmptyMap
    /\ unsubscribe_local_id(World, 1).result = "InternalError"

\* C2, as amended: when an EOSE for a one-shot subscription from one of its relays
\* is handled and none of its other relays is Syncing, exactly one end-signal is
\* queued and the state leaves both indexes; while another relay is still
\* Syncing the state stays indexed, that relay's entry is Closed and no
\* end-signal has been sent.
C2_OneShotEose ==
    ~panicked =>
    \A rid \in DOMAIN remote :
        LET s == remote[rid]
            sub == subs[s]
        IN  (sub.spec.is_oneshot /\ IsSome(sub.remote)) =>
            \A r \in {k \in DOMAIN RelaysOf(sub) : EvEose(k, rid) \in EventsOf(World)} :
                LET w1 == process_event(World, EvEose(r, rid))
                    others == {k \in DOMAIN RelaysOf(sub) \ {r} : RelaysOf(sub)[k] = Syncing}
                IN  /\ chan[s] = << >>
                    /\ ~w1.panicked
                    /\ IF others = {}
                       THEN /\ w1.chan[s] = <<"consider_finished">>
                            /\ Count(w1.out, EndSignal(s)) = 1
                            /\ ~InRemote(w1, s)
                            /\ ~InLocal(w1, s)
                       ELSE /\ w1.chan[s] = << >>
                            /\ Count(w1.out, EndSignal(s)) = 0
                            /\ rid \in DOMAIN w1.remote
                            /\ w1.remote[rid] = s
                            /\ EntryState(w1, s, r) = Closed

\* C2 as stated: the end-signal and the removal come with the EOSE of the last
\* relay that had not delivered one, and not before
C2_Original ==
    ~panicked =>
    \A rid \in DOMAIN remote :
        LET s == remote[rid]
            sub == subs[s]
        IN  (sub.spec.is_oneshot /\ IsSome(sub.remote)) =>
            \A r \in {k \in DOMAIN RelaysOf(sub) : EvEose(k, rid) \in EventsOf(World)} :
                LET w1 == process_event(World, EvEose(r, rid))
                    others == {k \in DOMAIN RelaysOf(sub) \ {r} : RelaysOf(sub)[k] # Closed}
                IN  IF others = {}
                    THEN w1.chan[s] = <<"consider_finished">> /\ ~InRemote(w1, s)
                    ELSE w1.chan[s] = << >> /\ InRemote(w1, s)

\* C2 witness: a one-shot subscription over two relays, both sent a REQ; the
\* EOSE of the first has been handled, the second is still Syncing
C2_Witness ==
    \E rid \in DOMAIN remote :
        /\ subs[remote[rid]].spec.is_oneshot
        /\ DOMAIN RelaysOf(subs[remote[rid]]) = {A1, B1}
        /\ RelaysOf(subs[remote[rid]])[A1] = Closed
        /\ RelaysOf(subs[remote[rid]])[B1] = Syncing
        /\ Count(reqs, Req(rid, A1)) = 1
        /\ B1 \in pool_urls(pool)

\* C3: a SubState is in the local index, under its local id, iff it has a local
\* part, and in the remote index, under its remote id, iff it has a remote part;
\* the indexes hold nothing else.
C3_IndexConsistency ==
    ~panicked =>
    /\ \A s \in DOMAIN subs :
          subs[s] # DroppedSubState =>
             /\ IsSome(subs[s].local) <=> InLocal(World, s)
             /\ IsSome(subs[s].remote) <=> InRemote(World, s)
    /\ \A id \in DOMAIN local :
          subs[local[id]].local = Some([local_id |-> id])
    /\ \A id \in DOMAIN remote :
          /\ IsSome(subs[remote[id]].remote)
          /\ subs[remote[id]].remote[1].remote_id = id

\* C3 witness: a subscription with both parts has been removed from both
\* indexes by the EOSE that finished it
C3_Witness ==
    /\ Len(subs) = 1
    /\ chan[1] = <<"consider_finished">>
    /\ 1 \in DOMAIN ndb.subs
    /\ local = EmptyMap
    /\ remote = EmptyMap

\* the REQ frames a call sent for slot s and relay r are one if it moved the
\* entry into Syncing and none otherwise
ReqIffIntoSyncing(w, w1, s, rid, r) ==
    Count(w1.out, Req(rid, r)) =
        IF EntryState(w1, s, r) = Syncing /\ EntryState(w, s, r) # Syncing THEN 1 ELSE 0

\* C4: subscribe and every relay event send a REQ for (RemoteId, relay) exactly
\* when they move that entry into Syncing, unsubscribe sends none, and no
\* (RemoteId, relay) is ever sent more than one REQ.
C4_ReqOnSyncing ==
    ~panicked =>
    /\ \A m \in BagToSet(reqs) : reqs[m] = 1
    /\ \A spec \in SpecChoices(Len(subs) + 1), default_relays \in DefaultChoices, r \in Urls :
          ReqIffIntoSyncing(World, subscribe(World, spec, default_relays),
                            Len(subs) + 1, spec.remote_id, r)
    /\ \A ev \in EventsOf(World), s \in DOMAIN subs, r \in Urls :
          LET w1 == process_event(World, ev)
          IN  ~w1.panicked =>
                 ReqIffIntoSyncing(World, w1, s, subs[s].spec.remote_id, r)
    /\ \A id \in 1 .. Len(subs), r \in Urls :
          /\ Count(unsubscribe_local_id(World, id).w.out, Req(id, r)) = 0
          /\ Count(unsubscribe_remote_id(World, id).w.out, Req(id, r)) = 0

\* C4 witness: an entry that was Pending at subscribe is Syncing after Opened,
\* with its one REQ on the wire
C4_Witness ==
    \E rid \in DOMAIN remote :
        /\ EntryState(World, remote[rid], B1) = Syncing
        /\ EntryState(World, remote[rid], A1) = Pending
        /\ Count(reqs, Req(rid, B1)) = 1
        /\ Count(reqs, Req(rid, A1)) = 0

\* C5: no subscription's end-signal is sent more than once.
C5_EndSignalOnce == \A s \in DOMAIN chan : Len(chan[s]) <= 1

\* C5 witness: a one-shot subscription ended by its EOSE, after which more
\* relay events and unsubscribe calls can follow
C5_Witness ==
    \E s \in DOMAIN chan :
        /\ chan[s] = <<"consider_finished">>
        /\ pool_urls(pool) # {}
        /\ ~InRemote(World, s)

\* C6 as stated: every key of a relay map, every blocked_relays entry and every
\* key of the idle map is in canonical form, so that a relay event, which carries
\* canonicalize(u), finds the entry created for u
C6_CanonicalKeys ==
    /\ \A s \in Range(remote) :
          IsSome(subs[s].remote) =>
             /\ \A k \in DOMAIN RelaysOf(subs[s]) : canonicalize_url(k) = k
             /\ \A k \in subs[s].spec.blocked_relays : canonicalize_url(k) = k
    /\ \A k \in DOMAIN idle : canonicalize_url(k) = k
    /\ \A s \in Range(remote), k \in Urls :
          (IsSome(subs[s].remote) /\ k \in DOMAIN RelaysOf(subs[s])) =>
              ~update_rss_panics(subs[s], canonicalize_url(k))

\* the three reasons for a relay to be in the pool after process_relays
InDefaultRelays(u, default_relays) == u \in {rs.url : rs \in default_relays}

InNonTerminalState(w, u) ==
    \E s \in Range(w.remote) : EntryState(w, s, u) \in {Pending, Syncing, Current}

InIdleGrace(w, u, t) == u \in DOMAIN w.idle /\ t - w.idle[u] <= IDLE_EXPIRATION_SECS

\* C7, as amended: after process_relays every relay of the pool is in
\* default_relays, or non-terminal in a subscription of the remote index, or
\* in the idle map for no more than the grace period; and every relay of the
\* idle map is in the pool.
C7_PoolOnlyNeededOrIdle ==
    ~panicked =>
    \A evs \in Batches(World), default_relays \in DefaultChoices :
        LET w1 == process_relays(World, evs, default_relays, now)
        IN  ~w1.panicked =>
            /\ \A u \in pool_urls(w1.pool) :
                  \/ InDefaultRelays(u, default_relays)
                  \/ InNonTerminalState(w1, u)
                  \/ InIdleGrace(w1, u, now)
            /\ DOMAIN w1.idle \subseteq pool_urls(w1.pool)

\* C7 as stated: after process_relays a relay is in the pool iff it is in
\* default_relays, non-terminal in an indexed subscription, or in its idle grace
C7_Original ==
    ~panicked =>
    \A evs \in Batches(World), default_relays \in DefaultChoices :
        LET w1 == process_relays(World, evs, default_relays, now)
        IN  ~w1.panicked =>
            \A u \in Urls :
                u \in pool_urls(w1.pool) <=>
                    \/ InDefaultRelays(u, default_relays)
                    \/ InNonTerminalState(w1, u)
                    \/ InIdleGrace(w1, u, now)

\* C7 witness: after process_relays and 20 seconds, one relay of the pool is
\* kept by a subscription and the other sits in the idle map, not yet expired
C7_Witness ==
    /\ now = IDLE_EXPIRATION_SECS
    /\ pool_urls(pool) = {A1, B1}
    /\ InNonTerminalState(World, A1)
    /\ ~InNonTerminalState(World, B1)
    /\ B1 \in DOMAIN idle
    /\ idle[B1] = 0

\* the relays a process_relays step finds in the pool and not needed, once it
\* has handled the events evs
UnneededAtStep(evs, default_relays) ==
    pool_urls(process_events(World, evs).pool)
        \ needed_relays(process_events(World, evs), default_relays)

\* since when the step counts a relay as idle: the step that first saw it idle
IdleSince(evs, default_relays, u) ==
    idle_entries(process_events(World, evs), default_relays, now)[u]

\* C12, as amended: a process_relays step that finds a relay of the pool not
\* needed removes it from the pool if the relay has been idle for more than 20
\* seconds, counted from the step that first saw it idle, and keeps it, with
\* that first instant in the idle map, if it has been idle for 20 seconds or less.
C12_IdleReap ==
    ~panicked =>
    \A evs \in Batches(World), default_relays \in DefaultChoices :
        LET w1 == process_relays(World, evs, default_relays, now)
        IN  ~w1.panicked =>
            \A u \in UnneededAtStep(evs, default_relays) :
                IF now - IdleSince(evs, default_relays, u) > IDLE_EXPIRATION_SECS
                THEN u \notin pool_urls(w1.pool) /\ u \notin DOMAIN w1.idle
                ELSE /\ u \in pool_urls(w1.pool)
                     /\ u \in DOMAIN w1.idle
                     /\ w1.idle[u] = IdleSince(evs, default_relays, u)

\* C12 as stated: the step removes the relay if it has been idle for at least 20
\* seconds and keeps it if it has been idle for less
C12_Original ==
    ~panicked =>
    \A evs \in Batches(World), default_relays \in DefaultChoices :
        LET w1 == process_relays(World, evs, default_relays, now)
        IN  ~w1.panicked =>
            \A u \in UnneededAtStep(evs, default_relays) :
                IF now - IdleSince(evs, default_relays, u) >= IDLE_EXPIRATION_SECS
                THEN u \notin pool_urls(w1.pool)
                ELSE u \in pool_urls(w1.pool)

\* C12 witness: two relays no subscription needed were first seen idle at 0 and
\* removed by the step at 21 seconds
C12_Witness ==
    /\ now = IDLE_EXPIRATION_SECS + 1
    /\ pool = EmptyMap
    /\ idle = EmptyMap
    /\ remote = EmptyMap

\* the specs a caller can build that ask for only-local and only-remote at once
DegenerateSpecs == {spec \in SpecChoices(Len(subs) + 1) : spec.is_onlylocal /\ spec.is_onlyremote}

\* C13 as stated: subscribe with a spec that is both only-local and only-remote
\* returns InternalError, hands out no receiver and leaves the indexes and the
\* pool as they were
C13_DegenerateRejected ==
    (~panicked /\ Len(subs) < MaxSubs) =>
    \A spec \in DegenerateSpecs, default_relays \in DefaultChoices :
        LET r == subscribe_returns(World, spec, default_relays)
            w1 == subscribe(World, spec, default_relays)
        IN  /\ r.result = "InternalError"
            /\ r.receiver = None
            /\ w1.local = local
            /\ w1.remote = remote
            /\ w1.pool = pool

\* the relay event ev makes SubMan send the end-signal of the SubState of slot s
EndsSubscription(ev, s) ==
    /\ ~process_event(World, ev).panicked
    /\ Count(process_event(World, ev).out, EndSignal(s)) > 0

\* C14, as amended: a relay event ends a subscription of the remote index only
\* if the subscription is one-shot, the event is an EOSE for its remote id from
\* a relay of its relay map, and no other relay of the map is Syncing; the state
\* then leaves both indexes.  Relays that are Pending or in Error do not keep
\* the subscription open.
C14_OneShotEnd ==
    ~panicked =>
    \A ev \in EventsOf(World), s \in Range(remote) :
        EndsSubscription(ev, s) =>
            /\ subs[s].spec.is_oneshot
            /\ ev.kind = "Eose"
            /\ ev.sid = subs[s].remote[1].remote_id
            /\ canonicalize_url(ev.relay) \in DOMAIN RelaysOf(subs[s])
            /\ \A k \in DOMAIN RelaysOf(subs[s]) \ {canonicalize_url(ev.relay)} :
                  RelaysOf(subs[s])[k] # Syncing
            /\ ~InRemote(process_event(World, ev), s)
            /\ ~InLocal(process_event(World, ev), s)

\* C14 as stated: a one-shot subscription is never ended by a relay event while
\* one of its other relays is still Pending or Syncing
C14_Original ==
    ~panicked =>
    \A ev \in EventsOf(World), s \in Range(remote) :
        EndsSubscription(ev, s) =>
            \A k \in DOMAIN RelaysOf(subs[s]) \ {canonicalize_url(ev.relay)} :
                RelaysOf(subs[s])[k] \notin {Pending, Syncing}

\* C14 witness: a one-shot subscription over two relays, one Syncing, the other
\* still Pending with no REQ sent; the EOSE of the first ends it
C14_Witness ==
    \E rid \in DOMAIN remote :
        /\ subs[remote[rid]].spec.is_oneshot
        /\ EntryState(World, remote[rid], A1) = Syncing
        /\ EntryState(World, remote[rid], B1) = Pending
        /\ Count(reqs, Req(rid, B1)) = 0
        /\ EvEose(A1, rid) \in EventsOf(World)
        /\ EndsSubscription(EvEose(A1, rid), remote[rid])

\* C16: once the receiver of a subscription has been dropped, the next
\* process_relays step removes the subscription's state from both indexes, so
\* that its relays no longer count as needed
C16_DroppedReclaimed ==
    ~panicked =>
    \A s \in dropped, evs \in Batches(World), default_relays \in DefaultChoices :
        LET w1 == process_relays(World, evs, default_relays, now)
        IN  ~w1.panicked =>
                /\ ~InLocal(w1, s)
                /\ ~InRemote(w1, s)
                /\ needed_relays(w1, default_relays) = {rs.url : rs \in default_relays}

\* C20: the relay map that subscribe creates for a spec that is not only-local
\* has exactly the urls of allowed_relays when that is not empty, whatever the
\* default relays, and otherwise exactly the urls of the default relays that
\* are readable (marked read, or not marked); for an only-local spec there is
\* no remote state and neither the pool nor the wire is touched
C20_RelaySelection ==
    ~panicked =>
    \A spec \in SpecChoices(Len(subs) + 1), default_relays \in DefaultChoices :
        LET w1 == subscribe(World, spec, default_relays)
            sub == w1.subs[Len(subs) + 1]
        IN  IF spec.is_onlylocal
            THEN /\ ~IsSome(sub.remote)
                 /\ ~InRemote(w1, Len(subs) + 1)
                 /\ w1.out = EmptyBag
                 /\ w1.reqs = reqs
                 /\ w1.pool = pool
            ELSE /\ IsSome(sub.remote)
                 /\ InRemote(w1, Len(subs) + 1)
                 /\ DOMAIN RelaysOf(sub) =
                       IF spec.allowed_relays # {}
                       THEN spec.allowed_relays
                       ELSE {rs.url : rs \in {r \in default_relays :
                                r.has_read_marker \/ ~r.has_write_marker}}

\* C20 witness: a subscription without allowed relays lives on wss://a/ alone,
\* the readable one of the default relays wss://a/ and write-only wss://b/
C20_Witness ==
    \E s \in Range(remote) :
        /\ subs[s].spec.allowed_relays = {}
        /\ DOMAIN RelaysOf(subs[s]) = {A1}
        /\ B1 \notin DOMAIN pool

\* C21: a chosen relay that is in blocked_relays is seeded as Error("blocked")
\* and is never sent a REQ with the subscription's remote id, at subscribe or
\* on a later Opened; every other chosen relay starts as Syncing, with its REQ
\* sent, when its socket is open, and as Pending, with nothing sent, otherwise
C21_BlockedNeverRequested ==
    ~panicked =>
    /\ \A spec \in SpecChoices(Len(subs) + 1), default_relays \in DefaultChoices :
          LET w1 == subscribe(World, spec, default_relays)
              sub == w1.subs[Len(subs) + 1]
              open(r) == canonicalize_url(r) \in DOMAIN pool /\ pool[canonicalize_url(r)]
          IN  IsSome(sub.remote) =>
                 \A r \in DOMAIN RelaysOf(sub) :
                     IF r \in spec.blocked_relays
                     THEN /\ RelaysOf(sub)[r] = ErrorBlocked
                          /\ Count(w1.out, Req(spec.remote_id, r)) = 0
                     ELSE IF open(r)
                     THEN /\ RelaysOf(sub)[r] = Syncing
                          /\ Count(w1.out, Req(spec.remote_id, r)) = 1
                     ELSE /\ RelaysOf(sub)[r] = Pending
                          /\ Count(w1.out, Req(spec.remote_id, r)) = 0
    /\ \A rid \in DOMAIN remote :
          \A r \in DOMAIN RelaysOf(subs[remote[rid]]) \cap subs[remote[rid]].spec.blocked_relays :
              /\ Count(reqs, Req(rid, r)) = 0
              /\ RelaysOf(subs[remote[rid]])[r] \notin {Pending, Syncing}
              /\ \A ev \in EventsOf(World) :
                    Count(process_event(World, ev).out, Req(rid, r)) = 0

\* C21 witness: wss://b/ is allowed and blocked; its socket has opened, its
\* entry is still Error("blocked") and only wss://a/ was sent the REQ
C21_Witness ==
    \E rid \in DOMAIN remote :
        /\ B1 \in subs[remote[rid]].spec.blocked_relays
        /\ B1 \in DOMAIN pool /\ pool[B1]
        /\ EntryState(World, remote[rid], B1) = ErrorBlocked
        /\ Count(reqs, Req(rid, B1)) = 0
        /\ Count(reqs, Req(rid, A1)) = 1

\* in w, Opened(u) sends one REQ on u to each indexed subscription whose entry
\* for u is Pending and makes that entry Syncing; every other entry is left as
\* it was with nothing sent for it, and no index changes
OpenedStep(w, u) ==
    LET w1 == process_event(w, EvOpened(u))
    IN  /\ ~w1.panicked
        /\ w1.remote = w.remote /\ w1.local = w.local
        /\ \A s \in Range(w.remote), r \in Urls :
              IF r = u /\ EntryState(w, s, r) = Pending
              THEN /\ EntryState(w1, s, r) = Syncing
                   /\ Count(w1.out, Req(w.subs[s].spec.remote_id, r)) = 1
              ELSE /\ EntryState(w1, s, r) = EntryState(w, s, r)
                   /\ Count(w1.out, Req(w.subs[s].spec.remote_id, r)) = 0
        /\ \A s \in Range(w1.remote) : EntryState(w1, s, u) # Pending

\* the world after two more subscribe calls, before the next call
TwoMore(w, spec1, spec2, default_relays) ==
    [subscribe(subscribe(w, spec1, default_relays), spec2, default_relays)
        EXCEPT !.out = EmptyBag]

\* C22: when process_relays handles Opened(url), every subscription of the
\* remote index whose entry for url is Pending is sent exactly one REQ on url
\* and becomes Syncing; entries in another state and entries of other relays
\* are unchanged and nothing is sent for them; afterwards no indexed
\* subscription has url in Pending.  Checked in every reachable state and, from
\* a new SubMan, in every world with two subscriptions.
C22_OpenedSendsPending ==
    ~panicked =>
    /\ \A ev \in EventsOf(World) : ev.kind = "Opened" => OpenedStep(World, ev.relay)
    /\ subs = << >> =>
          \A spec1 \in SpecChoices(1), spec2 \in SpecChoices(2),
             default_relays \in DefaultChoices, u \in pool_urls(pool) :
              OpenedStep(TwoMore(World, spec1, spec2, default_relays), u)

\* C22 witness: a subscription is Pending on wss://a/ and wss://b/, the socket
\* of wss://a/ opens: that entry becomes Syncing with its REQ sent, the other
\* stays Pending
C22_Witness ==
    \E rid \in DOMAIN remote :
        /\ EntryState(World, remote[rid], A1) = Pending
        /\ EntryState(World, remote[rid], B1) = Pending
        /\ EvOpened(A1) \in EventsOf(World)
        /\ EntryState(process_event(World, EvOpened(A1)), remote[rid], A1) = Syncing
        /\ EntryState(process_event(World, EvOpened(A1)), remote[rid], B1) = Pending
        /\ Count(process_event(World, EvOpened(A1)).out, Req(rid, A1)) = 1

\* in w, Error(u, e) sets the entry for u of every indexed subscription that
\* has one to Error(e), whatever its state, leaves every other entry as it was,
\* sends no frame and no end-signal and removes nothing from the indexes
ErrorStep(w, u) ==
    LET w1 == process_event(w, EvError(u))
    IN  /\ ~w1.panicked
        /\ w1.remote = w.remote /\ w1.local = w.local
        /\ w1.chan = w.chan
        /\ w1.out = EmptyBag
        /\ \A s \in Range(w.remote), r \in Urls :
              IF r = u /\ EntryState(w, s, r) # "none"
              THEN EntryState(w1, s, r) = ErrorRelay
              ELSE EntryState(w1, s, r) = EntryState(w, s, r)

\* C23: when process_relays handles Error(url, e), every subscription of the
\* remote index with an entry for url gets it set to Error(e); other entries
\* and subscriptions without url are unchanged, no CLOSE is sent, no end-signal
\* is fired and no subscription leaves an index.  Checked in every reachable
\* state and, from a new SubMan, in every world with two subscriptions.
C23_ErrorMarksEntries ==
    ~panicked =>
    /\ \A ev \in EventsOf(World) : ev.kind = "Error" => ErrorStep(World, ev.relay)
    /\ subs = << >> =>
          \A spec1 \in SpecChoices(1), spec2 \in SpecChoices(2),
             default_relays \in DefaultChoices, u \in pool_urls(pool) :
              ErrorStep(TwoMore(World, spec1, spec2, default_relays), u)

\* C23 witness: a one-shot subscription whose REQ went to wss://a/ has that
\* entry in Error(e) after the relay failed; it is still indexed, its
\* end-signal was not sent and no CLOSE went out
C23_Witness ==
    \E rid \in DOMAIN remote :
        /\ subs[remote[rid]].spec.is_oneshot
        /\ EntryState(World, remote[rid], A1) = ErrorRelay
        /\ Count(reqs, Req(rid, A1)) = 1
        /\ chan[remote[rid]] = << >>
        /\ ~pool[A1]

\* C24: when an EOSE for a remote id of the remote index arrives from a relay,
\* the entry of that relay becomes Current, no CLOSE is sent and the
\* subscription stays indexed if the spec is not one-shot; if it is one-shot,
\* exactly one CLOSE for the id is sent to the relay and the entry is Closed
\* (for as long as the subscription is indexed)
C24_EoseEntry ==
    ~panicked =>
    \A ev \in EventsOf(World) :
        (ev.kind = "Eose" /\ ev.sid \in DOMAIN remote) =>
            LET w1 == process_event(World, ev)
                s == remote[ev.sid]
                url == canonicalize_url(ev.relay)
            IN  /\ ~w1.panicked
                /\ IF subs[s].spec.is_oneshot
                   THEN /\ Count(w1.out, Close(ev.sid, url)) = 1
                        /\ InRemote(w1, s) => EntryState(w1, s, url) = Closed
                   ELSE /\ EntryState(w1, s, url) = Current
                        /\ \A r \in Urls : Count(w1.out, Close(ev.sid, r)) = 0
                        /\ InRemote(w1, s)

\* the RemoteSubState the Eose arm hands to consider_finished
EoseUpdated(w, s, url) ==
    update_rss(w.subs[s], url, IF w.subs[s].spec.is_oneshot THEN Closed ELSE Current)

\* the EOSE events of owned subscriptions from relays of their maps
OwnedEoses(w) ==
    {ev \in EventsOf(w) :
        /\ ev.kind = "Eose"
        /\ ev.sid \in DOMAIN w.remote
        /\ canonicalize_url(ev.relay) \in DOMAIN RelaysOf(w.subs[w.remote[ev.sid]])}

\* C25: consider_finished(is_oneshot) returns true and fires the end-signal
\* exactly when is_oneshot holds and no relay entry is Syncing; otherwise it
\* returns false, fires nothing and the subscription stays in the indexes
C25_ConsiderFinished ==
    ~panicked =>
    \A ev \in OwnedEoses(World) :
        LET s == remote[ev.sid]
            is_oneshot == subs[s].spec.is_oneshot
            after == EoseUpdated(World, s, canonicalize_url(ev.relay))
            ret == consider_finished(after, is_oneshot)
            w1 == process_event(World, ev)
        IN  /\ ret <=> (is_oneshot /\ \A k \in DOMAIN RelaysOf(after) :
                                          RelaysOf(after)[k] # Syncing)
            /\ ret => /\ Count(w1.out, EndSignal(s)) = 1
                      /\ Len(w1.chan[s]) = Len(chan[s]) + 1
            /\ ~ret => /\ Count(w1.out, EndSignal(s)) = 0
                       /\ w1.chan = chan
                       /\ w1.remote = remote
                       /\ w1.local = local

\* a one-shot subscription has a relay still pending when its last syncing
\* relay sends EOSE: consider_finished returns true
C25_Witness ==
    /\ ~panicked
    /\ \E ev \in OwnedEoses(World) :
           LET s == remote[ev.sid]
               after == EoseUpdated(World, s, canonicalize_url(ev.relay))
           IN  /\ subs[s].spec.is_oneshot
               /\ consider_finished(after, TRUE)
               /\ \E k \in DOMAIN RelaysOf(after) : RelaysOf(after)[k] = Pending

\* C26: an EOSE goes to the legacy handler exactly when its subscription id is
\* not in the remote index at the time it is processed; an EOSE for an owned id
\* never reaches the legacy handler, and one for an id that is not owned
\* changes no subscription state of SubMan
C26_EoseDelegation ==
    ~panicked =>
    \A ev \in EventsOf(World) :
        ev.kind = "Eose" =>
            LET w1 == process_event(World, ev)
                url == canonicalize_url(ev.relay)
                legacy == Count(w1.out, LegacyEose(ev.sid, url))
            IN  /\ legacy = (IF ev.sid \in DOMAIN remote THEN 0 ELSE 1)
                /\ ev.sid \notin DOMAIN remote =>
                       /\ ~w1.panicked
                       /\ w1.subs = subs
                       /\ w1.remote = remote
                       /\ w1.local = local
                       /\ w1.chan = chan

\* a relay sends EOSE for an owned id, and the same relay can send one for
\* the id of the legacy code
C26_Witness ==
    /\ ~panicked
    /\ \E ev \in OwnedEoses(World) :
           /\ ~process_event(World, ev).panicked
           /\ [ev EXCEPT !.sid = LegacySid] \in EventsOf(World)

\* the SubMan specification with the application loop calling process_relays
\* again and again
FairSpec == Spec /\ WF_vars(ProcessRelays)

\* a one-shot subscription of the remote index none of whose relays is syncing
\* or pending, and at least one of which is blocked or has failed
OneShotOnlyErrors(s) ==
    /\ ~panicked
    /\ s \in 1 .. Len(subs)
    /\ InRemote(World, s)
    /\ subs[s].spec.is_oneshot
    /\ \A k \in DOMAIN RelaysOf(subs[s]) : RelaysOf(subs[s])[k] \notin {Syncing, Pending}
    /\ \E k \in DOMAIN RelaysOf(subs[s]) : RelaysOf(subs[s])[k] \in {ErrorBlocked, ErrorRelay}

\* C27: a one-shot subscription with no relay entry left Syncing eventually
\* completes (end-signal fired, state out of the remote index), also when the
\* last Syncing entry left through a relay Error and when every relay is
\* blocked or has failed
C27_OneShotCompletes ==
    \A s \in 1 .. MaxSubs :
        OneShotOnlyErrors(s) ~> (panicked \/ ~InRemote(World, s))

\* C28: a process_relays step erases from the idle map every relay that is
\* needed again, without removing it from the pool; a relay that the step
\* finds unneeded and that has no idle entry starts its grace period at that
\* step; and no relay the step needs is in the idle map after it
C28_IdleMapFollowsNeed ==
    ~panicked =>
    \A evs \in Batches(World), default_relays \in DefaultChoices :
        LET w0 == process_events(World, evs)
            w1 == process_relays(World, evs, default_relays, now)
            needed == needed_relays(w0, default_relays)
        IN  ~w1.panicked =>
            /\ \A u \in DOMAIN idle \cap needed :
                  /\ u \notin DOMAIN w1.idle
                  /\ u \in pool_urls(w0.pool) => u \in pool_urls(w1.pool)
            /\ \A u \in UnneededAtStep(evs, default_relays) \ DOMAIN idle :
                  /\ u \in pool_urls(w1.pool)
                  /\ u \in DOMAIN w1.idle
                  /\ w1.idle[u] = now
            /\ DOMAIN w1.idle \cap needed = {}

\* the only relay the pool ever had went idle at 0, was needed again and erased,
\* and is idle anew with its grace period counted from the step at 20 seconds
C28_Witness ==
    /\ ~panicked
    /\ now = IDLE_EXPIRATION_SECS
    /\ pool_urls(pool) = {A1}
    /\ idle = [u \in {A1} |-> IDLE_EXPIRATION_SECS]

\* the CLOSE frames for sid that a call handed to the relay a map key names
ClosesTo(w, sid, k) ==
    Count(w.out, Close(sid, k)) +
        (IF canonicalize_url(k) = k THEN 0 ELSE Count(w.out, Close(sid, canonicalize_url(k))))

\* what C29 says of one unsubscribe call on the subscription of slot s
UnsubscribeCloses(s, w1, keys) ==
    /\ ~w1.panicked
    /\ IsSome(subs[s].remote) =>
          /\ \A k \in keys :
                ClosesTo(w1, subs[s].remote[1].remote_id, k) =
                    (IF RelaysOf(subs[s])[k] \in {Syncing, Current} THEN 1 ELSE 0)
          /\ BagCardinality(w1.out) =
                1 + Cardinality({k \in keys : RelaysOf(subs[s])[k] \in {Syncing, Current}})
          /\ Count(w1.out, EndSignal(s)) = 1
          /\ w1.chan[s] = Append(chan[s], "unsubscribe_substate")
    /\ ~InRemote(w1, s)
    /\ ~InLocal(w1, s)

\* C29: unsubscribe, by local or by remote id, sends exactly one CLOSE to each
\* relay whose entry is Syncing or Current and none to the relays in Pending,
\* Error or Closed, fires the end-signal and removes the state from the indexes
C29_UnsubscribeCloses ==
    ~panicked =>
    /\ \A local_id \in DOMAIN local :
          UnsubscribeCloses(local[local_id], unsubscribe_local_id(World, local_id).w,
                            IF IsSome(subs[local[local_id]].remote)
                            THEN DOMAIN RelaysOf(subs[local[local_id]]) ELSE {})
    /\ \A remote_id \in DOMAIN remote :
          UnsubscribeCloses(remote[remote_id], unsubscribe_remote_id(World, remote_id).w,
                            DOMAIN RelaysOf(subs[remote[remote_id]]))

\* the sender of the end-signal is gone: no index holds the SubState any more
SenderDropped(s) == ~InLocal(World, s) /\ ~InRemote(World, s)

\* what readiness allows one poll of next to return on a receiver with a
\* remote part
AllowedResults(receiver, local_ready, ended_ready) ==
    (IF receiver.localsub /\ local_ready THEN {"Ok"} ELSE {}) \cup
    (IF ended_ready THEN {"StreamEnded"} ELSE {}) \cup
    (IF ~(receiver.localsub /\ local_ready) /\ ~ended_ready THEN {"Pending"} ELSE {})

\* C30, as amended: on a remote-only receiver next never returns note keys, is
\* suspended while no end-signal is queued and the sender lives, and returns
\* StreamEnded otherwise; on a receiver with both parts it is suspended while
\* neither source is ready, returns the front of the local queue if only the
\* local stream is ready, StreamEnded if only the end-signal or the drop of
\* the sender is there, and either of the two if both are ready when polled
C30_NextBySource ==
    (~panicked /\ subs # << >>) =>
    LET receiver == rcvr.receiver
        outs == next(World, Receiver, receiver)
        local_ready == Receiver \in DOMAIN ndb.subs /\ ndb.subs[Receiver].queue # << >>
        ended_ready == chan[Receiver] # << >> \/ SenderDropped(Receiver)
    IN  /\ receiver.remotesub
        /\ {o.ret : o \in outs} = AllowedResults(receiver, local_ready, ended_ready)
        /\ \A o \in outs :
              /\ o.ret = "Ok" => o.keys = SubSeq(ndb.subs[Receiver].queue, 1, notes_per_await)
              /\ o.ret # "Ok" => o.keys = << >>

\* C30 as stated: on a remote-only receiver as above; on a receiver with both
\* parts the first next to return returns the local batch if the local stream
\* was ready first and StreamEnded if the end-signal was
C30_Original ==
    (~panicked /\ subs # << >>) =>
    LET receiver == rcvr.receiver
        outs == next(World, Receiver, receiver)
        ended_ready == chan[Receiver] # << >> \/ SenderDropped(Receiver)
    IN  /\ ~receiver.localsub =>
              {o.ret : o \in outs} = (IF ended_ready THEN {"StreamEnded"} ELSE {"Pending"})
        /\ (receiver.localsub /\ rcvr.first = "local") => {o.ret : o \in outs} = {"Ok"}
        /\ (receiver.localsub /\ rcvr.first = "ended") => {o.ret : o \in outs} = {"StreamEnded"}

\* a consumer suspended in next on a receiver with both parts is about to be
\* polled with a key queued and an end-signal queued
C30_Witness ==
    /\ ~panicked
    /\ subs # << >>
    /\ rcvr.receiver.localsub
    /\ rcvr.receiver.remotesub
    /\ rcvr.awaiting
    /\ ndb.subs[Receiver].queue # << >>
    /\ chan[Receiver] # << >>

\* C31: add_account(kp) replaces in place an entry with kp's pubkey that has
\* no secret key when kp has one, leaves the list unchanged if the pubkey is
\* there otherwise, and appends kp else; the list grows by at most one, the
\* selected index does not change and the switch intent names the index where
\* the pubkey now is
C31_AddAccount ==
    (~panicked /\ ~hung) =>
    \A pk \in PubKeys, nsec \in BOOLEAN :
        LET r == add_account_kp(KeyWorld, pk, nsec)
            present == pk \in Range(accounts)
        IN  /\ (present /\ nsec /\ pk \notin secret_keys) =>
                   /\ r.k.a.accounts = accounts
                   /\ r.k.secret_keys = secret_keys \cup {pk}
            /\ (present /\ ~(nsec /\ pk \notin secret_keys)) =>
                   /\ r.k.a.accounts = accounts
                   /\ r.k.secret_keys = secret_keys
            /\ ~present =>
                   /\ r.k.a.accounts = Append(accounts, pk)
                   /\ r.k.secret_keys = (IF nsec THEN secret_keys \cup {pk} ELSE secret_keys)
            /\ Len(r.k.a.accounts) <= Len(accounts) + 1
            /\ r.k.a.currently_selected_account = currently_selected_account
            /\ r.switch_to_index \in DOMAIN r.k.a.accounts
            /\ r.k.a.accounts[r.switch_to_index] = pk
            /\ r.k.a.account_data = account_data

\* the first of two accounts is held without its secret key, so that a keypair
\* with the secret key upgrades it where it is
C31_Witness ==
    /\ ~panicked /\ ~hung
    /\ Len(accounts) = 2
    /\ accounts[1] \notin secret_keys
    /\ currently_selected_account = Some(2)

\* the advertised relays of an optional AccountData that pass the filter
AdvertisedPassing(data_option, filter) ==
    IF IsSome(data_option)
    THEN {x \in data_option[1].relay.advertised : PassesFilter(filter, x)}
    ELSE {}

\* C32: get_combined_relays returns exactly the advertised relays of the
\* selected account that pass the filter when there is one, and otherwise (no
\* account data, nothing advertised, or nothing passing) exactly the
\* bootstrap relays that pass the same filter
C32_CombinedRelays ==
    ~panicked =>
    \A filter \in RelayFilters :
        LET data_option == get_selected_account_data(AcctWorld)
            relays == get_combined_relays(AcctWorld, data_option, filter)
        IN  IF AdvertisedPassing(data_option, filter) # {}
            THEN relays = AdvertisedPassing(data_option, filter)
            ELSE relays = {x \in bootstrap_relays : PassesFilter(filter, x)}

\* the selected account advertises a write-only relay and nothing else: the
\* readable relays come from the bootstrap set, the writable ones do not
C32_Witness ==
    /\ ~panicked
    /\ IsSome(get_selected_account_data(AcctWorld))
    /\ get_selected_account_data(AcctWorld)[1].relay.advertised = {RelaySpec(B1, FALSE, TRUE)}
    /\ AdvertisedPassing(get_selected_account_data(AcctWorld), "readable") = {}
    /\ AdvertisedPassing(get_selected_account_data(AcctWorld), "writable") # {}

\* C33: the predicate mutefun() returned answers by the mute list the selected
\* account had during the call, whatever the harvest task stored and whichever
\* account was selected since; returned with no selected account, or for a
\* selected account with no data, it answers false for every note.
C33_MuteFunSnapshot ==
    IsSome(mute_fun) =>
    \A author \in PubKeys :
        is_muted(mute_fun[1].f, AcctWorld, author)
            <=> (IsSome(mute_fun[1].at_call) /\ author \in mute_fun[1].at_call[1])

\* a predicate returned for a non-empty mute list is still held while the
\* harvest task has replaced the list of the account, which is still selected
C33_Witness ==
    /\ IsSome(mute_fun)
    /\ IsSome(mute_fun[1].at_call)
    /\ mute_fun[1].at_call[1] # {}
    /\ IsSome(selected_muted(AcctWorld))
    /\ selected_muted(AcctWorld)[1] # mute_fun[1].at_call[1]
    /\ \E author \in PubKeys : is_muted(mute_fun[1].f, AcctWorld, author)

\* the RelaySpec that harvest_nip65_relays is to make of one r tag with a url
SpecOfTag(tag) ==
    RelaySpec(canonicalize_url(tag[2]),
              Len(tag) >= 3 /\ tag[3] = "read",
              Len(tag) >= 3 /\ tag[3] = "write")

\* C35: harvesting the kind 10002 event that publish_nip65_relays writes for an
\* advertised set gives that set back, for every set that harvests and
\* add/remove of advertised relays produce; and a harvest makes of an r tag
\* without marker a RelaySpec with neither marker, of an r tag with a marker a
\* RelaySpec with that marker alone
C35_Nip65RoundTrip ==
    /\ \A pk \in DOMAIN account_data :
          harvest_nip65_relays(nip65_tags(account_data[pk].relay.advertised))
              = account_data[pk].relay.advertised
    /\ \A tags \in Nip65Events :
          /\ \A tag \in tags :
                (Len(tag) >= 2 /\ tag[1] = "r") =>
                    /\ SpecOfTag(tag) \in harvest_nip65_relays(tags)
                    /\ Len(tag) = 2 => ~SpecOfTag(tag).has_read_marker
                                       /\ ~SpecOfTag(tag).has_write_marker
                    /\ ~(SpecOfTag(tag).has_read_marker /\ SpecOfTag(tag).has_write_marker)
          /\ \A rs \in harvest_nip65_relays(tags) :
                \E tag \in tags : Len(tag) >= 2 /\ tag[1] = "r" /\ rs = SpecOfTag(tag)

\* the selected account advertises a harvested relay with a marker beside a
\* relay without markers: its event has a tag with and a tag without marker
C35_Witness ==
    \E pk \in DOMAIN account_data :
        /\ RelaySpec(A1, TRUE, FALSE) \in account_data[pk].relay.advertised
        /\ \E rs \in account_data[pk].relay.advertised :
              ~rs.has_read_marker /\ ~rs.has_write_marker
        /\ <<"r", A1, "read">> \in nip65_tags(account_data[pk].relay.advertised)
        /\ \E tag \in nip65_tags(account_data[pk].relay.advertised) : Len(tag) = 2

\* in the Accounts a, the account pk has a subscription of `part` in SubMan's
\* remote index whose harvest task is in its loop
HasRunningTask(a, pk, part) ==
    /\ pk \in DOMAIN a.account_data
    /\ IsSome(a.account_data[pk][part].sub_remote_id)
    /\ a.account_data[pk][part].sub_remote_id[1] \in DOMAIN a.w.remote
    /\ a.w.remote[a.account_data[pk][part].sub_remote_id[1]] \notin dropped

\* the harvest task of `part` of the selected account has left its loop
SelectedTaskExited(pk, part) ==
    /\ IsSome(currently_selected_account)
    /\ currently_selected_account[1] \in DOMAIN accounts
    /\ accounts[currently_selected_account[1]] = pk
    /\ IsSome(DataSub(pk, part))
    /\ DataSub(pk, part)[1] \in dropped

\* C36: when the harvest task of the selected account has left its loop, the
\* next Accounts::update activates the account's subscription again: after the
\* update the account has a subscription whose task runs
C36_ExitedTaskReactivated ==
    ~panicked =>
    \A pk \in PubKeys, part \in {"relay", "muted"} :
        SelectedTaskExited(pk, part) =>
            \/ update(AcctWorld).w.panicked
            \/ HasRunningTask(update(AcctWorld), pk, part)

\* C37: no sequence of subscribe, unsubscribe_local_id, unsubscribe_remote_id
\* and process_relays with relay events makes SubMan fail an expect(): update_rss
\* finds its relay entry and unsubscribe_substate the index entries it removes
C37_NoExpectFailure == ~panicked

\* C38: the terminal relay states are absorbing: an entry of a subscription's
\* relay map that is Error or Closed is not moved to Pending, Syncing or Current
\* by any later step, so that it never makes its relay needed again
C38_TerminalAbsorbing ==
    [][\A s \in DOMAIN subs, r \in Urls :
          IsTerminal(EntryState(World, s, r)) =>
              EntryState([subs |-> subs', remote |-> remote'], s, r)
                  \notin {Pending, Syncing, Current}]_vars

\* C40: once an account has been removed, the next Accounts::update leaves no
\* subscription that was activated for it in SubMan's indexes
C40_RemovedUnsubscribed ==
    ~panicked =>
    \A pk \in DOMAIN account_data, part \in {"relay", "muted"} :
        (pk \notin Range(accounts) /\ IsSome(DataSub(pk, part))) =>
            \/ update(AcctWorld).w.panicked
            \/ /\ ~InRemote(update(AcctWorld).w, DataSub(pk, part)[1])
               /\ ~InLocal(update(AcctWorld).w, DataSub(pk, part)[1])

----------------------------------------------------------------------------
(* Properties of the Accounts specification *)

\* the subscription of this part of an account's data is active
Active(a, part) ==
    /\ IsSome(part.sub_remote_id)
    /\ part.sub_remote_id[1] \in DOMAIN a.w.remote

\* every account has data, and its two subscriptions are active iff it is selected
ActiveIffSelected(a) ==
    \A i \in DOMAIN a.accounts :
        /\ a.accounts[i] \in DOMAIN a.account_data
        /\ Active(a, a.account_data[a.accounts[i]].relay)
              <=> (Some(i) = a.currently_selected_account)
        /\ Active(a, a.account_data[a.accounts[i]].muted)
              <=> (Some(i) = a.currently_selected_account)

\* in a, where update has run, selecting account j and calling update unsubscribes
\* the two subscriptions of the account selected before and subscribes two new
\* ones for account j
SwitchMovesSubscriptions(a, j) ==
    LET old == a.account_data[a.accounts[a.currently_selected_account[1]]]
        a2 == update(select_account(a, j))
        new == a2.account_data[a.accounts[j]]
    IN  /\ ~a2.w.panicked
        /\ old.relay.sub_remote_id[1] \notin DOMAIN a2.w.remote
        /\ old.muted.sub_remote_id[1] \notin DOMAIN a2.w.remote
        /\ Active(a2, new.relay)
        /\ Active(a2, new.muted)
        /\ new.relay.sub_remote_id[1] \notin DOMAIN a.w.remote
        /\ new.muted.sub_remote_id[1] \notin DOMAIN a.w.remote
        /\ new.relay.sub_remote_id # new.muted.sub_remote_id
        /\ ActiveIffSelected(a2)

SelectedHasSecretKey ==
    /\ IsSome(get_selected_account_data(AcctWorld))
    /\ accounts[currently_selected_account[1]] \in secret_keys

\* C17: add_advertised_relay / remove_advertised_relay on a selected account
\* that has a secret key completes: the thread neither blocks nor panics, the
\* advertised set is updated, needs_relay_config is set and exactly one kind
\* 10002 event listing the updated set has been published
C17_ModifyCompletes ==
    (~panicked /\ ~hung /\ SelectedHasSecretKey) =>
    \A relay_url \in RelayUrlInputs, action \in {"Add", "Remove"}, relock \in RelockOutcomes :
        LET k1 == modify_advertised_relays(KeyWorld, relay_url, action, relock)
            pk == accounts[currently_selected_account[1]]
        IN  /\ ~k1.hung
            /\ ~k1.a.w.panicked
            /\ k1.needs_relay_config
            /\ Len(k1.published) = Len(published) + 1
            /\ k1.published[Len(k1.published)].kind = 10002
            /\ k1.published[Len(k1.published)].tags =
                   nip65_tags(k1.a.account_data[pk].relay.advertised)

\* the pubkey selected in the Accounts world a, if any
SelectedPubKey(a) ==
    IF IsSome(a.currently_selected_account)
    THEN Some(a.accounts[a.currently_selected_account[1]])
    ELSE None

\* C18, as amended: remove_account(i) on a valid index removes account i and
\* keeps the others in order.  An account other than the selected one is
\* removed: the same account stays selected (its index is one less if i was
\* before it).  The selected account is removed: the list is empty and the
\* selection is cleared, or i was the last index and the new last account is
\* selected, or else index i stays selected, which is now the account that
\* followed the removed one.
C18_RemoveAccount ==
    \A index \in DOMAIN accounts :
        LET a1 == remove_account(AcctWorld, index)
            sel == currently_selected_account
        IN  /\ a1.accounts = SeqRemove(accounts, index)
            /\ ~IsSome(sel) => ~IsSome(a1.currently_selected_account)
            /\ (IsSome(sel) /\ sel[1] > index) =>
                  a1.currently_selected_account = Some(sel[1] - 1)
            /\ (IsSome(sel) /\ sel[1] < index) => a1.currently_selected_account = sel
            /\ (IsSome(sel) /\ sel[1] # index) => SelectedPubKey(a1) = SelectedPubKey(AcctWorld)
            /\ (IsSome(sel) /\ sel[1] = index) =>
                  IF Len(accounts) = 1 THEN a1.currently_selected_account = None
                  ELSE IF index = Len(accounts)
                  THEN a1.currently_selected_account = Some(Len(accounts) - 1)
                  ELSE /\ a1.currently_selected_account = Some(index)
                       /\ SelectedPubKey(a1) = Some(accounts[index + 1])

\* C18 as stated: when the selected account is removed and accounts remain,
\* the last account of the remaining list becomes selected
C18_Original ==
    \A index \in DOMAIN accounts :
        (currently_selected_account = Some(index) /\ Len(accounts) > 1) =>
            remove_account(AcctWorld, index).currently_selected_account
                = Some(Len(accounts) - 1)

\* C18 witness: three accounts, the first is selected and is removed: the
\* account that followed it is selected, not the last one
C18_Witness ==
    /\ Len(accounts) = 3
    /\ currently_selected_account = Some(1)
    /\ SelectedPubKey(remove_account(AcctWorld, 1)) = Some(accounts[2])
    /\ remove_account(AcctWorld, 1).currently_selected_account # Some(2)

----------------------------------------------------------------------------
(* Properties of the receiver specification *)

\* the keys of the notes stored since the subscription was made that match its
\* filters, in the order the store inserted them
MatchingSince(n, id) ==
    LET matches(k) == k >= n.subs[id].first /\ FilterMatches(n.subs[id].filters, n.notes[k])
    IN  SelectSeq([k \in 1 .. Len(n.notes) |-> k], matches)

\* the queue of the receiver's subscription in the local store
ReceiverQueue(w) == w.ndb.subs[w.subs[Receiver].local[1].local_id].queue

\* C9: for an only-local subscription, the keys handed to the consumer by poll and
\* next, followed by those still waiting, are the matching notes ingested since
\* subscribe, each once and in insertion order; poll returns the front of what is
\* waiting and next its first key, either takes what it returns, and poll returns
\* nothing when nothing is waiting.
C9_LocalDeliveryOnce ==
    (~panicked /\ subs # << >>) =>
    /\ rcvr.delivered \o ReceiverQueue(World) = MatchingSince(ndb, Receiver)
    /\ \A max_notes \in 1 .. MaxPoll :
          LET r == poll(World, Receiver, max_notes)
          IN  /\ r.keys \o ReceiverQueue(r.w) = ReceiverQueue(World)
              /\ Len(r.keys) = Min(max_notes, Len(ReceiverQueue(World)))
              /\ ReceiverQueue(World) = << >> => r.keys = << >>
    /\ stream_ready(World, Receiver) =>
          LET r == next_local(World, Receiver)
          IN  /\ r.keys \o ReceiverQueue(r.w) = ReceiverQueue(World)
              /\ Len(r.keys) = 1

\* C9 witness: a note stored before subscribe, then two matching notes with a
\* non-matching one between them; the consumer has been handed the two
C9_Witness ==
    /\ subs # << >>
    /\ Len(ndb.notes) = 4
    /\ ndb.subs[Receiver].first = 2
    /\ rcvr.delivered = <<2, 4>>
    /\ rcvr.ret = <<4>>
    /\ ReceiverQueue(World) = << >>

\* C10: a consumer suspended in next() on an only-local subscription is resumed
\* once a matching note is stored, with exactly one key, the first one stored;
\* if that was the only one, poll returns nothing afterwards.
C10_WaitingConsumerResumed ==
    /\ [](rcvr.awaiting /\ stream_ready(World, Receiver)
            => <>(~rcvr.awaiting /\ rcvr.woken /\ Len(rcvr.ret) = 1))
    /\ [][(rcvr.awaiting /\ ~rcvr'.awaiting) =>
             /\ rcvr'.ret = <<Head(ReceiverQueue(World))>>
             /\ Len(ReceiverQueue(World)) = 1 =>
                   \A max_notes \in 1 .. MaxPoll :
                       ndb_poll_for_notes(ndb', Receiver, max_notes).keys = << >>]_vars

\* C10 witness: the consumer suspended, a matching note was stored, and the
\* consumer has returned from next() with its key; nothing is waiting
C10_Witness ==
    /\ subs # << >>
    /\ ~rcvr.awaiting
    /\ rcvr.woken
    /\ rcvr.ret = <<1>>
    /\ rcvr.delivered = <<1>>
    /\ ReceiverQueue(World) = << >>

\* C15: a subscription built with OneShot and OnlyLocal terminates at once: no
\* live local subscription stays in the LocalId index and the consumer's next()
\* reports StreamEnded instead of suspending on the stream
C15_OneShotLocalImmediate ==
    (subs # << >> /\ ~panicked /\ subs[Receiver].spec.is_oneshot
                  /\ subs[Receiver].spec.is_onlylocal) =>
        /\ ~InLocal(World, Receiver)
        /\ ndb.subs = << >>
        /\ ~rcvr.awaiting

----------------------------------------------------------------------------
(* Properties of the UnknownIds specification *)

\* the ids the specification can insert that the bag does not hold
NewUnknownPubkeys(u) == {pk \in UnkPubkeys : UnknownId("Pubkey", pk) \notin DOMAIN u.ids}

\* C11 as stated: ready_to_send is false while the bag is empty; an insertion
\* into an empty bag (after construction or after clear) makes it true; after
\* an insertion into a bag that is not empty, made at a later instant than the
\* update before it, it is false at every instant less than 2 seconds after it
C11_ReadyToSend ==
    /\ unknown_ids.ids = EmptyMap => ~ready_to_send(unknown_ids, now)
    /\ unknown_ids.ids = EmptyMap =>
          \A pk \in UnkPubkeys :
              ready_to_send(add_pubkey_if_missing(unknown_ids, pk, FALSE, now), now)
    /\ (unknown_ids.ids # EmptyMap /\ unknown_ids.last_updated # Some(now)) =>
          \A pk \in NewUnknownPubkeys(unknown_ids), d \in 0 .. DEBOUNCE_SECS - 1 :
              ~ready_to_send(add_pubkey_if_missing(unknown_ids, pk, FALSE, now), now + d)

----------------------------------------------------------------------------
(* Properties of the resolution request specification *)

\* the id list of the one filter of a request
ChunkOf(subspec) ==
    IF "authors" \in DOMAIN subspec.filters[1]
    THEN subspec.filters[1].authors
    ELSE subspec.filters[1].ids

\* the requests of one relay bucket and one kind of id, in order
SubSpecsOf(subspecs, relay, kind) ==
    LET mine(subspec) ==
            /\ subspec.allowed_relays = (IF relay = NoRelay THEN {} ELSE {relay})
            /\ ("authors" \in DOMAIN subspec.filters[1]) <=> (kind = "Pubkey")
    IN  SelectSeq(subspecs, mine)

RECURSIVE Flatten(_)
Flatten(seqs) == IF seqs = << >> THEN << >> ELSE Head(seqs) \o Flatten(Tail(seqs))

\* the requests generated from the bag u fulfil the contract
WellChunked(u, subspecs) ==
    /\ \A i \in DOMAIN subspecs :
          /\ Len(subspecs[i].filters) = 1
          /\ \/ /\ DOMAIN subspecs[i].filters[1] = {"authors", "kinds"}
                /\ subspecs[i].filters[1].kinds = {0}
             \/ DOMAIN subspecs[i].filters[1] = {"ids"}
          /\ Len(ChunkOf(subspecs[i])) \in 1 .. MAX_CHUNK_IDS
          /\ subspecs[i].is_oneshot /\ subspecs[i].is_onlyremote /\ ~subspecs[i].is_onlylocal
          /\ subspecs[i].allowed_relays \in {{}, {A0}, {A1}, {B1}}
    /\ \A relay \in {NoRelay, A0, A1, B1}, kind \in {"Pubkey", "Id"} :
          LET of_kind == {id \in DOMAIN u.ids : id.kind = kind}
              by_default == IF relay = NoRelay THEN of_kind ELSE {}
              by_hint == {id \in of_kind : relay \in u.ids[id]}
              N == Cardinality(by_default) + Cardinality(by_hint)
              mine == SubSpecsOf(subspecs, relay, kind)
              placed == Flatten([c \in DOMAIN mine |-> ChunkOf(mine[c])])
          IN  /\ Len(mine) = (N + MAX_CHUNK_IDS - 1) \div MAX_CHUNK_IDS
              /\ Len(placed) = N
              /\ Range(placed) = {id.id : id \in by_default \cup by_hint}

WellBucketed(u, subspecs) ==
    /\ \A i \in DOMAIN subspecs :
          /\ subspecs[i].is_oneshot
          /\ subspecs[i].is_onlyremote
          /\ \/ subspecs[i].allowed_relays = {}
             \/ \E relay \in UNION Range(u.ids) \ {NoRelay} :
                   subspecs[i].allowed_relays = {relay}
    /\ \A kind \in {"Pubkey", "Id"} :
          LET of_kind == {id \in DOMAIN u.ids : id.kind = kind}
              asked(relay) ==
                  LET mine == SubSpecsOf(subspecs, relay, kind)
                  IN  UNION {Range(ChunkOf(mine[c])) : c \in DOMAIN mine}
          IN  /\ asked(NoRelay) = {id.id : id \in of_kind}
              /\ \A relay \in Urls :
                    asked(relay) = {id.id : id \in {x \in of_kind : relay \in u.ids[x]}}

\* C34: generate_resolution_requests asks the default relays (the SubSpecs
\* without AllowedRelays) for every unknown id, and asks each hinted relay, in
\* SubSpecs whose AllowedRelays is that one relay, for exactly the ids that
\* carry it as a hint; every SubSpec is OneShot and OnlyRemote
C34_HintBuckets ==
    \A order \in IterationOrders(unknown_ids.ids) :
        WellBucketed(unknown_ids, generate_resolution_requests(unknown_ids, order))

\* requests were generated from a bag in which some ids have two hints, some
\* one and some none: the default bucket asks for all of them, the bucket of
\* B1 for fewer than the bucket of A0
C34_Witness ==
    /\ requests # << >>
    /\ \E id \in DOMAIN unknown_ids.ids : unknown_ids.ids[id] = {A0, B1}
    /\ \E id \in DOMAIN unknown_ids.ids : unknown_ids.ids[id] = {A0}
    /\ \E id \in DOMAIN unknown_ids.ids : unknown_ids.ids[id] = {}
    /\ WellBucketed(unknown_ids, requests)
    /\ SubSpecsOf(requests, B1, "Pubkey") # << >>
    /\ Len(SubSpecsOf(requests, A0, "Pubkey")) > Len(SubSpecsOf(requests, B1, "Pubkey"))

\* C39: whatever add_account, remove_account, select_account and
\* clear_selected_account did, the selected index is absent or an index of the
\* account list; and a remove_account that leaves the selected account in the
\* list leaves that account selected
C39_SelectionValid ==
    /\ [](IsSome(currently_selected_account) =>
             currently_selected_account[1] \in DOMAIN accounts)
    /\ [][(/\ Len(accounts') < Len(accounts)
           /\ IsSome(currently_selected_account)
           /\ accounts[currently_selected_account[1]] \in Range(accounts'))
          => /\ IsSome(currently_selected_account')
             /\ accounts'[currently_selected_account'[1]]
                   = accounts[currently_selected_account[1]]]_vars

\* four accounts with the third selected: removing the first moves the
\* selection to index two, removing the fourth leaves it; both keep the account
C39_Witness ==
    /\ Len(accounts) = 4
    /\ currently_selected_account = Some(3)
    /\ remove_account(AcctWorld, 1).currently_selected_account = Some(2)
    /\ remove_account(AcctWorld, 4).currently_selected_account = Some(3)
    /\ SelectedPubKey(remove_account(AcctWorld, 1)) = Some(accounts[3])
    /\ SelectedPubKey(remove_account(AcctWorld, 4)) = Some(accounts[3])

====
